---- MODULE Spec2Model ----
(***************************************************************************)
(* Model of the LE Audio profile layer of trouble_audio: the Audio Stream  *)
(* Endpoint (ASE) state machine of src/src/ascs.rs, and the GATT server of *)
(* src/trouble-audio/src (PACS, ASCS and the dispatcher Server::process)   *)
(* with the older ASCS handlers of src/src/ascs.rs, the construction of   *)
(* the server with its static stores, and the codecs of the GATT values.   *)
(*                                                                         *)
(* An AseState value is a record [kind, params]; the kinds without         *)
(* parameters (Idle, Releasing, RFU) are records with the kind only, as    *)
(* the variants of the Rust enum.  Option<T> is a sequence: <<>> is None   *)
(* and <<v>> is Some(v).  Arrays [u8; 3] are sequences of three numbers.   *)
(***************************************************************************)
EXTENDS Integers, Sequences, FiniteSets

VARIABLES
    state,      \* Ase::state, the AseState of the endpoint
    prev,       \* the `self` argument of the latest call of transition
    operation,  \* the `operation` argument of the latest call, or "None"
    initiator,  \* the `initiator` argument of the latest call, or "None"
    ase_type,   \* the `ase_type` argument of the latest call, or "None"
    server,     \* the server that was built: table, pacs, ascs
    event,      \* the latest read or write event
    reply,      \* the answer given to the latest event
    cells,      \* the static storage cells that were initialised
    build,      \* the outcome of the latest construction of a server
    call        \* the latest call of a codec function and its result

ase_vars == <<state, prev, operation, initiator, ase_type>>

server_vars == <<server, event, reply>>

build_vars == <<cells, build>>

vars == <<state, prev, operation, initiator, ase_type,
          server, event, reply, cells, build, call>>

(***************************************************************************)
(* Bounds                                                                  *)
(***************************************************************************)
\* Largest value given to a numeric parameter field of an input state.
MaxParam == 2

ParamValues == 0..MaxParam

(***************************************************************************)
(* Enumerations                                                            *)
(***************************************************************************)
AseControlOperation ==
    {"ConfigCodec", "ConfigQos", "Enable", "ReceiverStartReady",
     "ReceiverStopReady", "Disable", "UpdateMetadata", "Release", "Released"}

\* AseControlOpcode: the operation of each opcode byte 0x01 .. 0x09, in the
\* order of the bytes.
AseControlOpcode ==
    <<"ConfigCodec", "ConfigQos", "Enable", "ReceiverStartReady", "Disable",
      "ReceiverStopReady", "UpdateMetadata", "Release", "Released">>

InitiatingDevice == {"Client", "Server", "ClientOrServer"}

AseType == {"Source", "Sink", "All"}

AseStateKinds ==
    {"Idle", "CodecConfigured", "QosConfigured", "Enabling", "Streaming",
     "Disabling", "Releasing", "RFU"}

\* The variants of AseState that carry a parameter struct.
ParamKinds ==
    {"CodecConfigured", "QosConfigured", "Enabling", "Streaming", "Disabling"}

\* trouble_host::connection::PhySet, the values used here.
PhySet == {"M1", "M2", "Coded"}

(***************************************************************************)
(* Parameter structs and their defaults                                    *)
(***************************************************************************)
\* CodecId::default() is CodecId(0x000000000D).
DefaultCodecId == 13

AseParamsCodecConfiguredDefault ==
    [framing |-> 0,
     preferred_phy |-> "M2",
     preferred_retransmission_number |-> 0,
     max_transport_latency |-> 0,
     presentation_delay_min |-> 0,
     presentation_delay_max |-> 0,
     preferred_presentation_delay_min |-> 0,
     preferred_presentation_delay_max |-> 0,
     codec_id |-> DefaultCodecId,
     codec_specific_configuration_length |-> 0,
     codec_specific_configuration |-> <<>>]

AseParamsQoSConfiguredDefault ==
    [cig_id |-> 0,
     cis_id |-> 0,
     sdu_interval |-> <<0, 0, 0>>,
     framing |-> 0,
     phy |-> "M2",
     max_sdu |-> 0,
     retransmission_number |-> 0,
     max_transport_latency |-> 0,
     presentation_delay |-> <<0, 0, 0>>]

AseParamsOtherDefault ==
    [cig_id |-> 0, cis_id |-> 0, metadata |-> <<>>]

(***************************************************************************)
(* AseState values                                                         *)
(***************************************************************************)
Idle == [kind |-> "Idle"]

Releasing == [kind |-> "Releasing"]

RFU == [kind |-> "RFU"]

CodecConfigured(p) == [kind |-> "CodecConfigured", params |-> p]

QosConfigured(p) == [kind |-> "QosConfigured", params |-> p]

Enabling(p) == [kind |-> "Enabling", params |-> p]

Streaming(p) == [kind |-> "Streaming", params |-> p]

Disabling(p) == [kind |-> "Disabling", params |-> p]

\* AseParamsCodecConfigured values an owner can build: the fields are public.
\* Every field takes a value other than its default in some member.
AseParamsCodecConfigured ==
    {AseParamsCodecConfiguredDefault}
    \cup {[AseParamsCodecConfiguredDefault EXCEPT !.framing = v] : v \in ParamValues}
    \cup {[AseParamsCodecConfiguredDefault EXCEPT !.preferred_phy = y] : y \in PhySet}
    \cup {[AseParamsCodecConfiguredDefault EXCEPT !.preferred_retransmission_number = v] :
            v \in ParamValues}
    \cup {[AseParamsCodecConfiguredDefault EXCEPT !.max_transport_latency = v] :
            v \in ParamValues}
    \cup {[AseParamsCodecConfiguredDefault EXCEPT !.presentation_delay_min = v] :
            v \in ParamValues}
    \cup {[AseParamsCodecConfiguredDefault EXCEPT !.presentation_delay_max = v] :
            v \in ParamValues}
    \cup {[AseParamsCodecConfiguredDefault EXCEPT !.preferred_presentation_delay_min = v] :
            v \in ParamValues}
    \cup {[AseParamsCodecConfiguredDefault EXCEPT !.preferred_presentation_delay_max = v] :
            v \in ParamValues}
    \cup {[AseParamsCodecConfiguredDefault EXCEPT !.codec_id = v] : v \in ParamValues}
    \cup {[AseParamsCodecConfiguredDefault EXCEPT
              !.codec_specific_configuration_length = 1,
              !.codec_specific_configuration = <<(<<v>>)>>] : v \in ParamValues}

AseParamsQoSConfigured ==
    {AseParamsQoSConfiguredDefault}
    \cup {[AseParamsQoSConfiguredDefault EXCEPT !.cig_id = v] : v \in ParamValues}
    \cup {[AseParamsQoSConfiguredDefault EXCEPT !.cis_id = v] : v \in ParamValues}
    \cup {[AseParamsQoSConfiguredDefault EXCEPT !.sdu_interval = <<v, 0, 0>>] :
            v \in ParamValues}
    \cup {[AseParamsQoSConfiguredDefault EXCEPT !.framing = v] : v \in ParamValues}
    \cup {[AseParamsQoSConfiguredDefault EXCEPT !.phy = y] : y \in PhySet}
    \cup {[AseParamsQoSConfiguredDefault EXCEPT !.max_sdu = v] : v \in ParamValues}
    \cup {[AseParamsQoSConfiguredDefault EXCEPT !.retransmission_number = v] :
            v \in ParamValues}
    \cup {[AseParamsQoSConfiguredDefault EXCEPT !.max_transport_latency = v] :
            v \in ParamValues}
    \cup {[AseParamsQoSConfiguredDefault EXCEPT !.presentation_delay = <<0, v, 0>>] :
            v \in ParamValues}

AseParamsOther ==
    {[cig_id |-> g, cis_id |-> s, metadata |-> m] :
        g \in ParamValues, s \in ParamValues,
        m \in {<<>>} \cup {<<v>> : v \in ParamValues}}

\* The AseState values given to transition as `self`.
AseState ==
    {Idle, Releasing, RFU}
    \cup {CodecConfigured(p) : p \in AseParamsCodecConfigured}
    \cup {QosConfigured(p) : p \in AseParamsQoSConfigured}
    \cup {Enabling(p) : p \in AseParamsOther}
    \cup {Streaming(p) : p \in AseParamsOther}
    \cup {Disabling(p) : p \in AseParamsOther}

(***************************************************************************)
(* AseState::transition                                                    *)
(*                                                                         *)
(* The match of the source compares `initiator` and `ase_type` with the    *)
(* enum values named in each arm: ClientOrServer and All are values like   *)
(* the others, not wildcards.  The arms are grouped by the state they      *)
(* match, as the comments of the source group them.                        *)
(***************************************************************************)
\* A fallback arm that panics instead of returning a state.
InvalidTransitionPanics(self) == [kind |-> "Panicked"]

\* A fallback arm that treats an invalid operation as having no effect.
InvalidTransitionNoEffect(self) == self

\* A fallback arm that parks the endpoint in the reserved state.
InvalidTransitionRfu(self) == RFU

\* A fallback arm that resets the endpoint to Idle.
InvalidTransitionIdle(self) == Idle

\* The `_` arm: warn "Invalid transition state", then Disabling(default).
InvalidTransition(self) == Disabling(AseParamsOtherDefault)

FromIdle(self, op, init, ty) ==
    IF op = "ConfigCodec" /\ init = "ClientOrServer" /\ ty = "All"
    THEN CodecConfigured(AseParamsCodecConfiguredDefault)
    ELSE InvalidTransition(self)

FromCodecConfigured(self, op, init, ty) ==
    CASE op = "ConfigCodec" /\ init = "ClientOrServer" /\ ty = "All" ->
            CodecConfigured(AseParamsCodecConfiguredDefault)
      [] op = "Release" /\ init = "ClientOrServer" /\ ty = "All" -> Releasing
      [] op = "ConfigQos" /\ init = "Client" /\ ty = "All" ->
            QosConfigured(AseParamsQoSConfiguredDefault)
      [] OTHER -> InvalidTransition(self)

FromQosConfigured(self, op, init, ty) ==
    CASE op = "ConfigCodec" /\ init = "ClientOrServer" /\ ty = "All" ->
            CodecConfigured(AseParamsCodecConfiguredDefault)
      [] op = "ConfigQos" /\ init = "Client" /\ ty = "All" ->
            QosConfigured(AseParamsQoSConfiguredDefault)
      [] op = "Release" /\ init = "ClientOrServer" /\ ty = "All" -> Releasing
      [] op = "Enable" /\ init = "Client" /\ ty = "All" ->
            Enabling(AseParamsOtherDefault)
      [] OTHER -> InvalidTransition(self)

\* The ReceiverStartReady arms with the two endpoint directions exchanged.
FromEnablingSwapped(self, op, init, ty) ==
    CASE op = "Release" /\ init = "ClientOrServer" /\ ty = "All" -> Releasing
      [] op = "UpdateMetadata" /\ init = "ClientOrServer" /\ ty = "All" ->
            Enabling(AseParamsOtherDefault)
      [] op = "Disable" /\ init = "ClientOrServer" /\ ty = "Source" ->
            Disabling(AseParamsOtherDefault)
      [] op = "Disable" /\ init = "ClientOrServer" /\ ty = "Sink" ->
            QosConfigured(AseParamsQoSConfiguredDefault)
      [] op = "ReceiverStartReady" /\ init = "Client" /\ ty = "Sink" ->
            Streaming(AseParamsOtherDefault)
      [] op = "ReceiverStartReady" /\ init = "Server" /\ ty = "Source" ->
            Streaming(AseParamsOtherDefault)
      [] OTHER -> InvalidTransition(self)

FromEnabling(self, op, init, ty) ==
    CASE op = "Release" /\ init = "ClientOrServer" /\ ty = "All" -> Releasing
      [] op = "UpdateMetadata" /\ init = "ClientOrServer" /\ ty = "All" ->
            Enabling(AseParamsOtherDefault)
      [] op = "Disable" /\ init = "ClientOrServer" /\ ty = "Source" ->
            Disabling(AseParamsOtherDefault)
      [] op = "Disable" /\ init = "ClientOrServer" /\ ty = "Sink" ->
            QosConfigured(AseParamsQoSConfiguredDefault)
      [] op = "ReceiverStartReady" /\ init = "Client" /\ ty = "Source" ->
            Streaming(AseParamsOtherDefault)
      [] op = "ReceiverStartReady" /\ init = "Server" /\ ty = "Sink" ->
            Streaming(AseParamsOtherDefault)
      [] OTHER -> InvalidTransition(self)

\* An UpdateMetadata arm that keeps the parameters of the current state.
FromStreamingKeepsParams(self, op, init, ty) ==
    CASE op = "UpdateMetadata" /\ init = "ClientOrServer" /\ ty = "All" ->
            Streaming(self.params)
      [] op = "Disable" /\ init = "ClientOrServer" /\ ty = "Source" ->
            Disabling(AseParamsOtherDefault)
      [] op = "Disable" /\ init = "ClientOrServer" /\ ty = "Sink" ->
            QosConfigured(AseParamsQoSConfiguredDefault)
      [] op = "Release" /\ init = "ClientOrServer" /\ ty = "All" -> Releasing
      [] OTHER -> InvalidTransition(self)

FromStreaming(self, op, init, ty) ==
    CASE op = "UpdateMetadata" /\ init = "ClientOrServer" /\ ty = "All" ->
            Streaming(AseParamsOtherDefault)
      [] op = "Disable" /\ init = "ClientOrServer" /\ ty = "Source" ->
            Disabling(AseParamsOtherDefault)
      [] op = "Disable" /\ init = "ClientOrServer" /\ ty = "Sink" ->
            QosConfigured(AseParamsQoSConfiguredDefault)
      [] op = "Release" /\ init = "ClientOrServer" /\ ty = "All" -> Releasing
      [] OTHER -> InvalidTransition(self)

\* A ReceiverStopReady arm that leaves the endpoint in Disabling.
FromDisablingStays(self, op, init, ty) ==
    CASE op = "ReceiverStopReady" /\ init = "Client" /\ ty = "Source" ->
            Disabling(AseParamsOtherDefault)
      [] op = "Release" /\ init = "ClientOrServer" /\ ty = "Source" -> Releasing
      [] OTHER -> InvalidTransition(self)

FromDisabling(self, op, init, ty) ==
    CASE op = "ReceiverStopReady" /\ init = "Client" /\ ty = "Source" ->
            QosConfigured(AseParamsQoSConfiguredDefault)
      [] op = "Release" /\ init = "ClientOrServer" /\ ty = "Source" -> Releasing
      [] OTHER -> InvalidTransition(self)

\* The Released arm as the commented-out ReleasedCaching arm of the source.
FromReleasingCaching(self, op, init, ty) ==
    IF op = "Released" /\ init = "Server" /\ ty = "All"
    THEN CodecConfigured(AseParamsCodecConfiguredDefault)
    ELSE InvalidTransition(self)

\* A Released arm that leaves the endpoint in Releasing.
FromReleasingStays(self, op, init, ty) ==
    IF op = "Released" /\ init = "Server" /\ ty = "All"
    THEN Releasing
    ELSE InvalidTransition(self)

FromReleasing(self, op, init, ty) ==
    IF op = "Released" /\ init = "Server" /\ ty = "All"
    THEN Idle
    ELSE InvalidTransition(self)

transition(self, op, init, ty) ==
    CASE self.kind = "Idle" -> FromIdle(self, op, init, ty)
      [] self.kind = "CodecConfigured" -> FromCodecConfigured(self, op, init, ty)
      [] self.kind = "QosConfigured" -> FromQosConfigured(self, op, init, ty)
      [] self.kind = "Enabling" -> FromEnabling(self, op, init, ty)
      [] self.kind = "Streaming" -> FromStreaming(self, op, init, ty)
      [] self.kind = "Disabling" -> FromDisabling(self, op, init, ty)
      [] self.kind = "Releasing" -> FromReleasing(self, op, init, ty)
      [] OTHER -> InvalidTransition(self)

(***************************************************************************)
(* The attribute table (trouble_host::attribute::AttributeTable)           *)
(*                                                                         *)
(* The table is the sequence of its attributes; the handle of an attribute *)
(* is its position, starting at 1.  A characteristic takes a declaration   *)
(* and a value attribute, and a client configuration descriptor when it    *)
(* notifies.  The value attribute holds the bytes of its store in `data`;  *)
(* the byte images of PAC, AudioContexts and AseType values are memory     *)
(* images that no handler reads, they are left empty and the AseType value *)
(* of an ASE characteristic is kept in `ase` (None for the others).        *)
(***************************************************************************)
\* Number of bytes of a characteristic value of type AudioLocation (u32).
SizeOfAudioLocation == 4

\* AudioLocation::RightSurround.bits()
RightSurround == 134217728

\* AudioLocation::FrontLeft.bits()
FrontLeft == 1

\* AudioLocation::all().bits(): the 28 location bits.
AllLocations == 2 * RightSurround - 1

\* The bit positions of a u32 that the byte samples of the model can set.
BitPositions == 0..30

\* Two to the power n.
RECURSIVE Pow2(_)
Pow2(n) == IF n = 0 THEN 1 ELSE 2 * Pow2(n - 1)

\* The bits of a mask, as the set of their positions.
Bits(n) == {i \in BitPositions : (n \div Pow2(i)) % 2 = 1}

\* u32::to_le_bytes, the byte image of an AudioLocation.
ToLeBytes(n) ==
    <<n % 256, (n \div 256) % 256, (n \div 65536) % 256, (n \div 16777216) % 256>>

\* u32::from_le_bytes of a sequence of four bytes.
FromLeBytes(d) == d[1] + 256 * d[2] + 65536 * d[3] + 16777216 * d[4]

\* AudioLocation::as_gatt
AudioLocationAsGatt(loc) == ToLeBytes(loc)

\* AudioLocation::from_gatt: None unless the data has the size of a u32.
AudioLocationFromGatt(d) ==
    IF Len(d) = SizeOfAudioLocation THEN <<FromLeBytes(d)>> ELSE <<>>

\* AttributeTable::new
EmptyTable == <<>>

\* AttributeTable::add_service
add_service(table, uuid) ==
    Append(table, [kind |-> "service", uuid |-> uuid, props |-> {},
                   data |-> <<>>, ase |-> <<>>])

\* ServiceBuilder::add_characteristic(..).build(): the table with the
\* attributes of the characteristic appended.
add_characteristic(table, uuid, props, data, ase) ==
    table
    \o <<[kind |-> "declaration", uuid |-> uuid, props |-> props,
          data |-> <<>>, ase |-> <<>>],
         [kind |-> "value", uuid |-> uuid, props |-> props,
          data |-> data, ase |-> ase]>>
    \o (IF "Notify" \in props
        THEN <<[kind |-> "cccd", uuid |-> uuid, props |-> props,
                data |-> <<>>, ase |-> <<>>]>>
        ELSE <<>>)

\* ServiceBuilder::add_characteristic_ro
add_characteristic_ro(table, uuid) ==
    add_characteristic(table, uuid, {"Read"}, <<>>, <<>>)

\* Characteristic::handle of the characteristic that is added next to the
\* table: the handle of its value attribute.
CharacteristicHandle(table) == Len(table) + 2

(***************************************************************************)
(* Construction of the services                                            *)
(***************************************************************************)
\* PAC::default(): no record.
PacDefault == [number_of_pac_records |-> 0, pac_records |-> <<>>]

\* Ase::new(id): the endpoint is created Idle.
Ase_new(id) == [id |-> id, state_id |-> 0, state |-> Idle]

\* PacsServer before construction: every optional characteristic absent.
NoPacs ==
    [sink_pac |-> <<>>, sink_audio_locations |-> <<>>,
     source_pac |-> <<>>, source_audio_locations |-> <<>>,
     supported_audio_contexts |-> <<>>, available_audio_contexts |-> <<>>]

\* One `match` of PacsServer::new on an optional read-only PAC.
AddOptionalPac(table, uuid, pac) ==
    IF pac = <<>> THEN table ELSE add_characteristic_ro(table, uuid)

\* One `match` of PacsServer::new on an optional Audio Locations value.
AddOptionalLocations(table, uuid, loc) ==
    IF loc = <<>>
    THEN table
    ELSE add_characteristic(table, uuid, {"Read", "Notify", "Write"},
                            AudioLocationAsGatt(loc[1]), <<>>)

\* The handle of an optional characteristic added next to the table.
OptionalHandle(table, arg) ==
    IF arg = <<>> THEN <<>> ELSE <<CharacteristicHandle(table)>>

\* PacsServer::new: the characteristics are added in the order of the
\* source; the result is the table and the handles kept by the service.
PacsServer_new(table, sink_pac, sink_loc, source_pac, source_loc) ==
    LET t0 == add_service(table, "PUBLISHED_AUDIO_CAPABILITIES")
        t1 == AddOptionalPac(t0, "SINK_PAC", sink_pac)
        t2 == AddOptionalLocations(t1, "SINK_AUDIO_LOCATIONS", sink_loc)
        t3 == AddOptionalPac(t2, "SOURCE_PAC", source_pac)
        t4 == AddOptionalLocations(t3, "SOURCE_AUDIO_LOCATIONS", source_loc)
        t5 == add_characteristic_ro(t4, "SUPPORTED_AUDIO_CONTEXTS")
        t6 == add_characteristic_ro(t5, "AVAILABLE_AUDIO_CONTEXTS")
    IN  [table |-> t6,
         pacs |->
            [sink_pac |-> OptionalHandle(t0, sink_pac),
             sink_audio_locations |-> OptionalHandle(t1, sink_loc),
             source_pac |-> OptionalHandle(t2, source_pac),
             source_audio_locations |-> OptionalHandle(t3, source_loc),
             supported_audio_contexts |-> <<CharacteristicHandle(t4)>>,
             available_audio_contexts |-> <<CharacteristicHandle(t5)>>]]

\* The characteristic UUID of an endpoint of AscsServer<MAX_ASES, ..>.
AseUuid(ase) == IF ase.type = "Source" THEN "SOURCE_ASE" ELSE "SINK_ASE"

\* The loops of AscsServer::new over `ases` and 0..MAX_CONNECTIONS: the
\* table after the characteristics of the endpoints from position i on,
\* connection j on, are added.
RECURSIVE AddAses(_, _, _, _, _)
AddAses(table, ases, max_connections, i, j) ==
    IF i > Len(ases) THEN table
    ELSE IF j > max_connections
         THEN AddAses(table, ases, max_connections, i + 1, 1)
         ELSE AddAses(add_characteristic(table, AseUuid(ases[i]),
                                         {"Read", "Notify"}, <<>>,
                                         <<ases[i]>>),
                      ases, max_connections, i, j + 1)

\* The attributes one endpoint characteristic takes (declaration, value,
\* client configuration descriptor).
AseAttributes == Len(add_characteristic(EmptyTable, "SINK_ASE",
                                        {"Read", "Notify"}, <<>>, <<>>))

\* AscsServer::new of src/trouble-audio: the control point first, then one
\* characteristic per endpoint and connection.
AscsServer_new(table, ases, max_connections) ==
    LET t0 == add_service(table, "AUDIO_STREAM_CONTROL")
        t1 == add_characteristic(t0, "ASE_CONTROL_POINT",
                  {"Write", "WriteWithoutResponse", "Notify"}, <<>>, <<>>)
    IN  [table |-> AddAses(t1, ases, max_connections, 1, 1),
         ascs |->
            [ase_control_point |-> CharacteristicHandle(t0),
             ases |->
                [i \in 1..Len(ases) |->
                    [j \in 1..max_connections |->
                        CharacteristicHandle(t1)
                        + AseAttributes
                          * ((i - 1) * max_connections + (j - 1))]]]]

\* AscsServer::new of src/src (AscsServer<ATT_MTU>): an optional Sink ASE,
\* an optional Source ASE, then the control point.
AscsServerMtu_new(table, sink_ase, source_ase) ==
    LET t0 == add_service(table, "AUDIO_STREAM_CONTROL")
        t1 == IF sink_ase = <<>> THEN t0
              ELSE add_characteristic(t0, "SINK_ASE", {"Read", "Notify"},
                       <<>>, <<[type |-> "Sink", ase |-> sink_ase[1]]>>)
        t2 == IF source_ase = <<>> THEN t1
              ELSE add_characteristic(t1, "SOURCE_ASE", {"Read", "Notify"},
                       <<>>, <<[type |-> "Source", ase |-> source_ase[1]]>>)
        t3 == add_characteristic(t2, "ASE_CONTROL_POINT",
                  {"Write", "WriteWithoutResponse", "Notify"}, <<>>, <<>>)
    IN  [table |-> t3,
         ascs |->
            [sink_ase |-> OptionalHandle(t0, sink_ase),
             source_ase |-> OptionalHandle(t1, source_ase),
             ase_control_point |-> CharacteristicHandle(t2)]]

\* ServerBuilder::new: the GAP service with the device name and the
\* appearance, and the GATT service.
ServerBuilder_new ==
    LET t0 == add_service(EmptyTable, "GAP")
        t1 == add_characteristic_ro(t0, "DEVICE_NAME")
        t2 == add_characteristic_ro(t1, "APPEARANCE")
    IN  add_service(t2, "GATT")

(***************************************************************************)
(* The event handlers                                                      *)
(*                                                                         *)
(* The Option<Result<(), AttErrorCode>> a handler returns is "None", "Ok"  *)
(* or the name of the error code; "Panic" stands for a handler that does   *)
(* not return.                                                             *)
(***************************************************************************)
\* `if let Some(c) = &opt { if event.handle() == c.handle`
IsHandle(opt, handle) == opt # <<>> /\ opt[1] = handle

\* PacsServer::handle_read_event: the Audio Locations of a direction are
\* looked at inside the `if let` of the PAC of that direction.
PacsServer_handle_read_event(pacs, handle) ==
    IF IsHandle(pacs.sink_pac, handle) THEN "Ok"
    ELSE IF pacs.sink_pac # <<>> /\ IsHandle(pacs.sink_audio_locations, handle)
    THEN "Ok"
    ELSE IF IsHandle(pacs.source_pac, handle) THEN "Ok"
    ELSE IF pacs.source_pac # <<>>
            /\ IsHandle(pacs.source_audio_locations, handle)
    THEN "Ok"
    ELSE IF IsHandle(pacs.supported_audio_contexts, handle) THEN "Ok"
    ELSE IF IsHandle(pacs.available_audio_contexts, handle) THEN "Ok"
    ELSE "None"

\* The body of the two Audio Locations branches of handle_write_event:
\* the length, the decoding, and the comparison with RightSurround.
LocationsWrite(data) ==
    IF Len(data) = SizeOfAudioLocation
       /\ AudioLocationFromGatt(data) # <<>>
       /\ AudioLocationFromGatt(data)[1] <= RightSurround
    THEN "Ok"
    ELSE "WRITE_REQUEST_REJECTED"

\* A write handler that answers the Audio Contexts characteristics with the
\* code of the Audio Locations characteristics.
PacsServer_handle_write_event_contexts(pacs, handle, data) ==
    IF IsHandle(pacs.sink_pac, handle) THEN "WRITE_NOT_PERMITTED"
    ELSE IF pacs.sink_pac # <<>> /\ IsHandle(pacs.sink_audio_locations, handle)
    THEN LocationsWrite(data)
    ELSE IF IsHandle(pacs.source_pac, handle) THEN "WRITE_NOT_PERMITTED"
    ELSE IF pacs.source_pac # <<>>
            /\ IsHandle(pacs.source_audio_locations, handle)
    THEN LocationsWrite(data)
    ELSE IF IsHandle(pacs.supported_audio_contexts, handle)
    THEN "WRITE_REQUEST_REJECTED"
    ELSE IF IsHandle(pacs.available_audio_contexts, handle)
    THEN "WRITE_REQUEST_REJECTED"
    ELSE "None"

\* PacsServer::handle_write_event
PacsServer_handle_write_event(pacs, handle, data) ==
    IF IsHandle(pacs.sink_pac, handle) THEN "WRITE_NOT_PERMITTED"
    ELSE IF pacs.sink_pac # <<>> /\ IsHandle(pacs.sink_audio_locations, handle)
    THEN LocationsWrite(data)
    ELSE IF IsHandle(pacs.source_pac, handle) THEN "WRITE_NOT_PERMITTED"
    ELSE IF pacs.source_pac # <<>>
            /\ IsHandle(pacs.source_audio_locations, handle)
    THEN LocationsWrite(data)
    ELSE IF IsHandle(pacs.supported_audio_contexts, handle)
    THEN "WRITE_NOT_PERMITTED"
    ELSE IF IsHandle(pacs.available_audio_contexts, handle)
    THEN "WRITE_NOT_PERMITTED"
    ELSE "None"

\* AscsServer::handle_read_event of src/trouble-audio
AscsServer_handle_read_event(ascs, handle) ==
    IF handle = ascs.ase_control_point THEN "WRITE_REQUEST_REJECTED"
    ELSE IF \E i \in DOMAIN ascs.ases :
                \E j \in DOMAIN ascs.ases[i] : handle = ascs.ases[i][j]
    THEN "Ok"
    ELSE "None"

\* AscsServer::handle_write_event of src/trouble-audio
AscsServer_handle_write_event(ascs, handle, data) ==
    IF handle = ascs.ase_control_point THEN "Ok"
    ELSE IF \E i \in DOMAIN ascs.ases :
                \E j \in DOMAIN ascs.ases[i] : handle = ascs.ases[i][j]
    THEN "WRITE_REQUEST_REJECTED"
    ELSE "None"

\* AscsServer::handle_read_event of src/src
AscsServerMtu_handle_read_event(ascs, handle) ==
    IF IsHandle(ascs.sink_ase, handle) THEN "Ok"
    ELSE IF IsHandle(ascs.source_ase, handle) THEN "Ok"
    ELSE IF handle = ascs.ase_control_point THEN "Ok"
    ELSE "None"

\* AscsServer::handle_write_event of src/src: todo!()
AscsServerMtu_handle_write_event(ascs, handle, data) == "Panic"

(***************************************************************************)
(* The dispatcher (Server::process)                                        *)
(***************************************************************************)
\* Server::handle_read: PACS first, then ASCS if it is configured.
handle_read(srv, handle) ==
    IF PacsServer_handle_read_event(srv.pacs, handle) # "None"
    THEN PacsServer_handle_read_event(srv.pacs, handle)
    ELSE IF srv.ascs # <<>>
    THEN AscsServer_handle_read_event(srv.ascs[1], handle)
    ELSE "None"

\* Server::handle_write: PACS first, then ASCS if it is configured.
handle_write(srv, handle, data) ==
    IF PacsServer_handle_write_event(srv.pacs, handle, data) # "None"
    THEN PacsServer_handle_write_event(srv.pacs, handle, data)
    ELSE IF srv.ascs # <<>>
    THEN AscsServer_handle_write_event(srv.ascs[1], handle, data)
    ELSE "None"

\* An accept that answers without applying the write.
accept_without_store(table, ev) == table

\* event.accept(): the attribute server applies an accepted write to the
\* value of the attribute before the reply is made; a read changes nothing.
accept(table, ev) ==
    IF ev.kind = "Write" /\ ev.handle \in DOMAIN table
    THEN [table EXCEPT ![ev.handle].data = ev.data]
    ELSE table

\* The match of Server::process on the event.
Handled(srv, ev) ==
    IF ev.kind = "Read"
    THEN handle_read(srv, ev.handle)
    ELSE handle_write(srv, ev.handle, ev.data)

\* The value a reply carries: an accepted read is answered with the stored
\* value of the attribute.
ReplyData(table, ev) ==
    IF ev.kind = "Read" /\ ev.handle \in DOMAIN table
    THEN table[ev.handle].data
    ELSE <<>>

\* A dispatcher that accepts the events no component handles.
process_accepting_unhandled(srv, ev) ==
    LET resp == Handled(srv, ev)
    IN  CASE resp = "None" ->
                [server |-> srv,
                 reply |-> [result |-> resp, answer |-> "accept",
                            code |-> "None",
                            data |-> ReplyData(srv.table, ev),
                            accepts |-> 1, rejects |-> 0]]
          [] resp = "Ok" ->
                [server |-> [srv EXCEPT !.table = accept(srv.table, ev)],
                 reply |-> [result |-> resp, answer |-> "accept",
                            code |-> "None",
                            data |-> ReplyData(srv.table, ev),
                            accepts |-> 1, rejects |-> 0]]
          [] OTHER ->
                [server |-> srv,
                 reply |-> [result |-> resp, answer |-> "reject",
                            code |-> resp, data |-> <<>>,
                            accepts |-> 0, rejects |-> 1]]

\* A dispatcher that only logs the events no component handles.
process_logging_unhandled(srv, ev) ==
    LET resp == Handled(srv, ev)
    IN  CASE resp = "None" ->
                [server |-> srv,
                 reply |-> [result |-> resp, answer |-> "none",
                            code |-> "None", data |-> <<>>,
                            accepts |-> 0, rejects |-> 0]]
          [] resp = "Ok" ->
                [server |-> [srv EXCEPT !.table = accept(srv.table, ev)],
                 reply |-> [result |-> resp, answer |-> "accept",
                            code |-> "None",
                            data |-> ReplyData(srv.table, ev),
                            accepts |-> 1, rejects |-> 0]]
          [] OTHER ->
                [server |-> srv,
                 reply |-> [result |-> resp, answer |-> "reject",
                            code |-> resp, data |-> <<>>,
                            accepts |-> 0, rejects |-> 1]]

\* A dispatcher that applies a write before it knows that it is accepted.
process_storing_first(srv, ev) ==
    LET resp == Handled(srv, ev)
        stored == [srv EXCEPT !.table = accept(srv.table, ev)]
    IN  CASE resp = "None" ->
                [server |-> stored,
                 reply |-> [result |-> resp, answer |-> "reject",
                            code |-> "INVALID_HANDLE", data |-> <<>>,
                            accepts |-> 0, rejects |-> 1]]
          [] resp = "Ok" ->
                [server |-> stored,
                 reply |-> [result |-> resp, answer |-> "accept",
                            code |-> "None",
                            data |-> ReplyData(srv.table, ev),
                            accepts |-> 1, rejects |-> 0]]
          [] OTHER ->
                [server |-> stored,
                 reply |-> [result |-> resp, answer |-> "reject",
                            code |-> resp, data |-> <<>>,
                            accepts |-> 0, rejects |-> 1]]

\* Server::process on a read or write event: the server after the event
\* and the reply that is sent, with the number of calls of event.accept()
\* and of event.reject(..) on the path taken.
process(srv, ev) ==
    LET resp == Handled(srv, ev)
    IN  CASE resp = "None" ->
                [server |-> srv,
                 reply |-> [result |-> resp, answer |-> "reject",
                            code |-> "INVALID_HANDLE", data |-> <<>>,
                            accepts |-> 0, rejects |-> 1]]
          [] resp = "Ok" ->
                [server |-> [srv EXCEPT !.table = accept(srv.table, ev)],
                 reply |-> [result |-> resp, answer |-> "accept",
                            code |-> "None",
                            data |-> ReplyData(srv.table, ev),
                            accepts |-> 1, rejects |-> 0]]
          [] OTHER ->
                [server |-> srv,
                 reply |-> [result |-> resp, answer |-> "reject",
                            code |-> resp, data |-> <<>>,
                            accepts |-> 0, rejects |-> 1]]

(***************************************************************************)
(* The state machine                                                       *)
(***************************************************************************)
\* No server is built yet.
NoServer ==
    [kind |-> "None", table |-> EmptyTable, pacs |-> NoPacs,
     ascs |-> <<>>, ascs_mtu |-> <<>>]

\* No event has arrived yet.
NoEvent == [kind |-> "None", handle |-> 0, data |-> <<>>, via |-> "None"]

\* No answer has been given yet.
NoReply ==
    [result |-> "None", answer |-> "none", code |-> "None", data |-> <<>>,
     accepts |-> 0, rejects |-> 0]

\* No server was constructed yet.
NoBuild ==
    [status |-> "none", builds |-> 0, ases |-> <<>>, max_connections |-> 0,
     needed |-> 0, ase_chars |-> 0, control_points |-> 0]

\* The results of the codec functions: a value, an error or a panic.
Ok(value) == [tag |-> "Ok", value |-> value]

InvalidLength == [tag |-> "InvalidLength", value |-> <<>>]

Panic == [tag |-> "Panic", value |-> <<>>]

NoResult == [tag |-> "None", value |-> <<>>]

\* No codec function was called yet.
NoCall ==
    [type |-> "None", fn |-> "None", args |-> <<>>, result |-> NoResult,
     input |-> <<>>, size_of_ase |-> 0]

\* Before ServerBuilder::new.
InitServerVars ==
    /\ server = NoServer
    /\ event = NoEvent
    /\ reply = NoReply

\* Ase::default(): the endpoint is created Idle; transition was not called.
InitAse ==
    /\ state = Idle
    /\ prev = Idle
    /\ operation = "None"
    /\ initiator = "None"
    /\ ase_type = "None"

\* No static cell is initialised and no server was constructed.
InitBuildVars ==
    /\ cells = {}
    /\ build = NoBuild

Init == InitAse /\ InitServerVars /\ InitBuildVars /\ call = NoCall

\* The inputs of the pure function: `self` is any AseState value.
InitTransition ==
    /\ state \in AseState
    /\ prev = Idle
    /\ operation = "None"
    /\ initiator = "None"
    /\ ase_type = "None"
    /\ InitServerVars
    /\ InitBuildVars
    /\ call = NoCall

\* state = state.transition(op, init, ty)
Transition(op, init, ty) ==
    /\ prev' = state
    /\ operation' = op
    /\ initiator' = init
    /\ ase_type' = ty
    /\ state' = transition(state, op, init, ty)
    /\ UNCHANGED <<server_vars, build_vars, call>>

Next ==
    \E op \in AseControlOperation, init \in InitiatingDevice, ty \in AseType :
        Transition(op, init, ty)

\* An endpoint from its construction on.
Spec == Init /\ [][Next]_vars

\* transition applied to every AseState value.
SpecTransition == InitTransition /\ [][Next]_vars

(***************************************************************************)
(* The server: construction, then read and write events                    *)
(***************************************************************************)
\* The Audio Locations values the application declares: one location, or
\* AudioLocation::all() as the example application.
InitialLocations == {FrontLeft, AllLocations}

\* AudioLocation::FrontRight.bits()
FrontRight == 2

\* The payloads of the write events: a three-byte and a five-byte control
\* operation (opcode, number of ASEs, ASE id, ...), and four-byte masks: one
\* location, two locations the higher of which is the highest, and a bit
\* that is no location.
WriteData ==
    {<<1, 1, 0>>, <<8, 1, 0, 0, 0>>,
     ToLeBytes(FrontRight),
     ToLeBytes(RightSurround + FrontLeft), ToLeBytes(2 * RightSurround)}

\* The states an endpoint is given before the server is built: the state
\* of Ase::new and a state with parameters.
EndpointStates == {Idle, Streaming(AseParamsOtherDefault)}

\* The endpoints given to the constructors: Ase::new(0) with `state` set.
Endpoints == {[Ase_new(0) EXCEPT !.state = s] : s \in EndpointStates}

\* MAX_CONNECTIONS of the example application.
MaxConnections == 1

\* The `ases` argument of add_ascs.  ASE_STORE is one StaticCell, which is
\* initialised once: the server is built with one endpoint characteristic
\* at most.
AsesChoices ==
    {<<>>} \cup {<<[type |-> t, ase |-> a]>> :
                    t \in {"Source", "Sink"}, a \in Endpoints}

\* Option<T> over a set of values.
Option(S) == {<<>>} \cup {<<v>> : v \in S}

\* The handles of the events: the value attributes of the table and the
\* first handle that is not in the table.
EventHandles(table) ==
    {h \in DOMAIN table : table[h].kind = "value"} \cup {Len(table) + 1}

\* ServerBuilder::new(..).add_pacs(..).add_ascs(..).build(); add_ascs is
\* optional.
Build(sink_pac, sink_loc, source_pac, source_loc, ases) ==
    /\ server.kind = "None"
    /\ LET p == PacsServer_new(ServerBuilder_new, sink_pac, sink_loc,
                               source_pac, source_loc)
           a == AscsServer_new(p.table, ases[1], MaxConnections)
       IN  server' =
             IF ases = <<>>
             THEN [kind |-> "Server", table |-> p.table, pacs |-> p.pacs,
                   ascs |-> <<>>, ascs_mtu |-> <<>>]
             ELSE [kind |-> "Server", table |-> a.table, pacs |-> p.pacs,
                   ascs |-> <<a.ascs>>, ascs_mtu |-> <<>>]
    /\ UNCHANGED <<event, reply, ase_vars, build_vars, call>>

\* AscsServer::new of src/src on a new table.
BuildAscsServerMtu(sink_ase, source_ase) ==
    /\ server.kind = "None"
    /\ LET a == AscsServerMtu_new(EmptyTable, sink_ase, source_ase)
       IN  server' = [kind |-> "AscsServer", table |-> a.table,
                      pacs |-> NoPacs, ascs |-> <<>>, ascs_mtu |-> <<a.ascs>>]
    /\ UNCHANGED <<event, reply, ase_vars, build_vars, call>>

\* Server::process on an event that gatt_data.process hands over.
Process(ev) ==
    /\ server.kind = "Server"
    /\ event' = ev
    /\ LET r == process(server, ev)
       IN  server' = r.server /\ reply' = r.reply
    /\ UNCHANGED <<ase_vars, build_vars, call>>

ProcessRead(handle) ==
    Process([kind |-> "Read", handle |-> handle, data |-> <<>>,
             via |-> "Server"])

ProcessWrite(handle, data) ==
    Process([kind |-> "Write", handle |-> handle, data |-> data,
             via |-> "Server"])

\* The answer of a handler called without a dispatcher.
HandlerReply(result) ==
    [result |-> result,
     answer |-> CASE result = "Panic" -> "panic"
                  [] result = "None" -> "none"
                  [] result = "Ok" -> "accept"
                  [] OTHER -> "reject",
     code |-> IF result \in {"Panic", "None", "Ok"} THEN "None" ELSE result,
     data |-> <<>>, accepts |-> 0, rejects |-> 0]

\* AscsServer<ATT_MTU>::handle_read_event on a read event.
AscsServerMtuRead(handle) ==
    /\ server.kind = "AscsServer"
    /\ reply.answer # "panic"
    /\ event' = [kind |-> "Read", handle |-> handle, data |-> <<>>,
                 via |-> "AscsServer"]
    /\ reply' = HandlerReply(
                    AscsServerMtu_handle_read_event(server.ascs_mtu[1], handle))
    /\ UNCHANGED <<server, ase_vars, build_vars, call>>

\* AscsServer<ATT_MTU>::handle_write_event on a write event.
AscsServerMtuWrite(handle, data) ==
    /\ server.kind = "AscsServer"
    /\ reply.answer # "panic"
    /\ event' = [kind |-> "Write", handle |-> handle, data |-> data,
                 via |-> "AscsServer"]
    /\ reply' = HandlerReply(
                    AscsServerMtu_handle_write_event(server.ascs_mtu[1],
                                                     handle, data))
    /\ UNCHANGED <<server, ase_vars, build_vars, call>>

NextServer ==
    \/ /\ server.kind = "None"
       /\ \E sink_pac \in Option({PacDefault}),
             sink_loc \in Option(InitialLocations),
             source_pac \in Option({PacDefault}),
             source_loc \in Option(InitialLocations),
             ases \in Option(AsesChoices) :
               Build(sink_pac, sink_loc, source_pac, source_loc, ases)
    \/ /\ server.kind = "None"
       /\ \E sink_ase \in Option(Endpoints), source_ase \in Option(Endpoints) :
               BuildAscsServerMtu(sink_ase, source_ase)
    \/ /\ server.kind = "Server"
       /\ \E handle \in EventHandles(server.table) : ProcessRead(handle)
    \/ /\ server.kind = "Server"
       /\ \E handle \in EventHandles(server.table), data \in WriteData :
               ProcessWrite(handle, data)
    \/ /\ server.kind = "AscsServer"
       /\ \E handle \in EventHandles(server.table) : AscsServerMtuRead(handle)
    \/ /\ server.kind = "AscsServer"
       /\ \E handle \in EventHandles(server.table), data \in WriteData :
               AscsServerMtuWrite(handle, data)

\* A server from its construction on.
SpecServer == Init /\ [][NextServer]_vars

(***************************************************************************)
(* Construction with the static storage cells                              *)
(***************************************************************************)
\* PACS_ATTRIBUTES of pacs.rs.
PACS_ATTRIBUTES == 13

\* MAX_SERVICES of server.rs: the capacity of the attribute table.
MAX_SERVICES == 4 + PACS_ATTRIBUTES + 15

\* Largest MAX_ASES of a ServerBuilder: the capacity of the `ases` vector.
MaxAses == 3

\* Largest MAX_CONNECTIONS of a ServerBuilder.
MaxSlots == 2

\* Largest number of servers the program constructs, one per connection.
MaxBuilds == 2

\* A cell that hands its buffer out again.
StaticCell_init_again(initialised, cell) == "Ok"

\* StaticCell::init on the cell `cell`: the buffer is handed out once, and
\* init on an initialised cell panics.
StaticCell_init(initialised, cell) ==
    IF cell \in initialised THEN "Panic" ELSE "Ok"

\* The loops of AscsServer::new over `ases` and 0..MAX_CONNECTIONS with the
\* store of each characteristic: ASE_STORE.init is evaluated for every
\* endpoint and connection, from position i, connection j on.  `pushed` is
\* the number of characteristics added.
RECURSIVE AddAseStores(_, _, _, _, _)
AddAseStores(initialised, ases, max_connections, i, j) ==
    IF i > Len(ases)
    THEN [status |-> "Ok", cells |-> initialised, pushed |-> 0]
    ELSE IF j > max_connections
    THEN AddAseStores(initialised, ases, max_connections, i + 1, 1)
    ELSE IF StaticCell_init(initialised, "ASE_STORE") = "Panic"
    THEN [status |-> "Panic", cells |-> initialised, pushed |-> 0]
    ELSE LET r == AddAseStores(initialised \cup {"ASE_STORE"}, ases,
                               max_connections, i, j + 1)
         IN  [r EXCEPT !.pushed = @ + 1]

\* The stores of AscsServer::new: CONTROL_STORE.init for the control point,
\* then the loops.
AscsServer_new_stores(initialised, ases, max_connections) ==
    IF StaticCell_init(initialised, "CONTROL_STORE") = "Panic"
    THEN [status |-> "Panic", cells |-> initialised,
          control_points |-> 0, ase_chars |-> 0]
    ELSE LET r == AddAseStores(initialised \cup {"CONTROL_STORE"}, ases,
                               max_connections, 1, 1)
         IN  [status |-> r.status, cells |-> r.cells,
              control_points |-> 1, ase_chars |-> r.pushed]

\* The `ases` vectors of n endpoints: Ase::new(i) as Source or Sink.
AsesOfLength(n) ==
    {[i \in 1..n |-> [type |-> ty[i], ase |-> Ase_new(i - 1)]] :
        ty \in [1..n -> {"Source", "Sink"}]}

\* The `ases` vectors a ServerBuilder of MAX_ASES <= MaxAses takes.
AsesVectors == UNION {AsesOfLength(n) : n \in 0..MaxAses}

\* The types of the endpoints of an `ases` vector.
AseTypes(ases) == [i \in 1..Len(ases) |-> ases[i].type]

\* One connection of the example application (run): the server is
\* constructed by ServerBuilder::new(..).add_pacs(..).add_ascs(ases).build()
\* with the sink PAC, and with the sink locations and their store or
\* without them.  `needed` is the number of attributes the table is asked
\* to hold.  A panic ends the program.
Construct(sink_loc, ases, max_connections) ==
    /\ build.status # "panic"
    /\ build.builds < MaxBuilds
    /\ LET store == IF sink_loc = <<>> THEN "Ok"
                    ELSE StaticCell_init(cells, "sink_audio_locations_store")
           c0 == IF sink_loc = <<>> THEN cells
                 ELSE cells \cup {"sink_audio_locations_store"}
           p == PacsServer_new(ServerBuilder_new, <<PacDefault>>, sink_loc,
                               <<>>, <<>>)
           st == AscsServer_new_stores(c0, ases, max_connections)
           a == AscsServer_new(p.table, ases, max_connections)
           panics == store = "Panic" \/ st.status = "Panic"
       IN  /\ cells' = IF store = "Panic" THEN cells ELSE st.cells
           /\ build' =
                 [status |-> IF panics THEN "panic" ELSE "built",
                  builds |-> build.builds + 1,
                  ases |-> AseTypes(ases),
                  max_connections |-> max_connections,
                  needed |-> Len(a.table),
                  ase_chars |-> IF store = "Panic" THEN 0 ELSE st.ase_chars,
                  control_points |->
                      IF store = "Panic" THEN 0 ELSE st.control_points]
           /\ server' =
                 IF panics THEN NoServer
                 ELSE [kind |-> "Server", table |-> a.table, pacs |-> p.pacs,
                       ascs |-> <<a.ascs>>, ascs_mtu |-> <<>>]
    /\ event' = NoEvent
    /\ reply' = NoReply
    /\ UNCHANGED <<ase_vars, call>>

NextBuild ==
    \/ /\ build.status # "panic"
       /\ \E sink_loc \in Option({AllLocations}), ases \in AsesVectors,
             max_connections \in 1..MaxSlots :
               Construct(sink_loc, ases, max_connections)
    \/ /\ build.status = "built"
       /\ \E handle \in EventHandles(server.table) : ProcessRead(handle)
    \/ /\ build.status = "built"
       /\ \E handle \in EventHandles(server.table), data \in WriteData :
               ProcessWrite(handle, data)

\* The program from its start on: servers are constructed one after the
\* other, and the events of a connection go to the server constructed for
\* it.
SpecBuild == Init /\ [][NextBuild]_vars

(***************************************************************************)
(* OctetsPerCodecFrame                                                     *)
(***************************************************************************)
\* Largest of the small values given to min_octets and max_octets.
MaxOctets == 2

\* The u16 values given to min_octets and max_octets: the small ones, the
\* ends of the low byte and the largest value whose pack is a number of
\* the model checker.
Octets == 0..MaxOctets \cup {255, 256, 32767}

\* The three types: OctetsPerCodecFrame of src/trouble-audio,
\* OctetsPerCodecFrame of src/src/generic_audio.rs and
\* SupportedOctetsPerCodecFrame of src/src/pacs.rs.
OctetsTypes ==
    {"OctetsPerCodecFrame", "OctetsPerCodecFrame_src",
     "SupportedOctetsPerCodecFrame"}

\* OctetsPerCodecFrame::new of src/trouble-audio: the fields as given.
OctetsPerCodecFrame_new(min_octets, max_octets) ==
    Ok(<<min_octets, max_octets>>)

\* OctetsPerCodecFrame::new of src/src/generic_audio.rs: panics when
\* min_octets > max_octets.
OctetsPerCodecFrame_src_new(min_octets, max_octets) ==
    IF min_octets > max_octets THEN Panic
    ELSE Ok(<<min_octets, max_octets>>)

\* SupportedOctetsPerCodecFrame::new of src/src/pacs.rs: warns and swaps
\* the two when min_octets > max_octets.
SupportedOctetsPerCodecFrame_new(min_octets, max_octets) ==
    IF min_octets > max_octets THEN Ok(<<max_octets, min_octets>>)
    ELSE Ok(<<min_octets, max_octets>>)

\* new of the type `type`.
new(type, min_octets, max_octets) ==
    CASE type = "OctetsPerCodecFrame" ->
            OctetsPerCodecFrame_new(min_octets, max_octets)
      [] type = "OctetsPerCodecFrame_src" ->
            OctetsPerCodecFrame_src_new(min_octets, max_octets)
      [] type = "SupportedOctetsPerCodecFrame" ->
            SupportedOctetsPerCodecFrame_new(min_octets, max_octets)

\* A pack with the two halves exchanged.
encode_min_high(v) == v[1] * 65536 + v[2]

\* encode, the same in the three types:
\* ((max_octets as u32) << 16) | min_octets as u32, on v = <<min, max>>.
encode(v) == v[2] * 65536 + v[1]

\* decode, the same in the three types: the low and the high 16 bits are
\* given to new.
decode(type, encoded) == new(type, encoded % 65536, encoded \div 65536)

\* The 32-bit word that has `low` in its low and `high` in its high 16 bits.
Word(low, high) == high * 65536 + low

\* The inputs: two u16 values, used as the arguments of new and as the
\* halves of a word received.
InitCodec ==
    /\ InitAse
    /\ InitServerVars
    /\ InitBuildVars
    /\ \E a \in Octets, b \in Octets : call = [NoCall EXCEPT !.input = <<a, b>>]

\* type::new(min_octets, max_octets) on the inputs.  A panic ends the
\* program.
CallNew(type) ==
    /\ call.result.tag # "Panic"
    /\ call' = [call EXCEPT !.type = type, !.fn = "new", !.args = call.input,
                            !.result = new(type, call.input[1],
                                           call.input[2])]
    /\ UNCHANGED <<ase_vars, server_vars, build_vars>>

\* v.encode() on the value that new or decode returned.
CallEncode ==
    /\ call.fn \in {"new", "decode"}
    /\ call.result.tag = "Ok"
    /\ call' = [call EXCEPT !.fn = "encode", !.args = call.result.value,
                            !.result = Ok(<<encode(call.result.value)>>)]
    /\ UNCHANGED <<ase_vars, server_vars, build_vars>>

\* type::decode(encoded) on the word that encode returned.
CallDecodeEncoded ==
    /\ call.fn = "encode"
    /\ call' = [call EXCEPT !.fn = "decode", !.args = call.result.value,
                            !.result = decode(call.type,
                                              call.result.value[1])]
    /\ UNCHANGED <<ase_vars, server_vars, build_vars>>

\* type::decode(encoded) on a word received: its halves are the inputs.
CallDecodeWord(type) ==
    /\ call.result.tag # "Panic"
    /\ call' = [call EXCEPT
                   !.type = type, !.fn = "decode",
                   !.args = <<Word(call.input[1], call.input[2])>>,
                   !.result = decode(type, Word(call.input[1],
                                                call.input[2]))]
    /\ UNCHANGED <<ase_vars, server_vars, build_vars>>

NextCodec ==
    \/ \E type \in OctetsTypes : CallNew(type)
    \/ CallEncode
    \/ CallDecodeEncoded
    \/ \E type \in OctetsTypes : CallDecodeWord(type)

\* new, encode and decode applied to every pair of inputs.
SpecCodec == InitCodec /\ [][NextCodec]_vars

(***************************************************************************)
(* from_gatt of the values of fixed size                                   *)
(***************************************************************************)
\* Largest length of a buffer given to from_gatt.
MaxBufferLen == 5

\* The bytes of the buffers.  As the top byte of an AudioLocation, 1 and 3
\* are defined positions (FrontLeftWide, FrontRightWide) and 16 is outside
\* them.
SampleBytes == {0, 1, 3, 16}

\* The buffers given to from_gatt.
Buffers == UNION {[1..n -> SampleBytes] : n \in 0..MaxBufferLen}

\* size_of::<Ase>() is chosen by the compiler: id, state_id and a state of
\* one byte at least.  from_gatt compares it with the length only.
AseSizes == 3..MaxBufferLen

\* #[repr(u16)] of ContextType.
SizeOfContextType == 2

\* size_of::<AudioContexts>(): sink_contexts and source_contexts.
SizeOfAudioContexts == 2 * SizeOfContextType

\* AseControlOpcode::SIZE
SizeOfAseControlOpcode == 1

\* The discriminant of AudioLocation::Undefined of src/src: the variant
\* after RightSurround.
Undefined == RightSurround + 1

\* The positions of the defined locations, FrontLeft to RightSurround.
LocationPositions == {i \in BitPositions : Pow2(i) <= RightSurround}

\* The values of the variants of AudioLocation of src/src that from_gatt
\* matches: Mono and one position each.
MatchedLocations == {0} \cup {Pow2(i) : i \in LocationPositions}

\* The discriminants of ContextType: Prohibited, Unspecified to Alarm, and
\* Undefined after Alarm.
ContextTypes == {0} \cup {Pow2(i) : i \in 0..11} \cup {Pow2(11) + 1}

\* The discriminants of AseControlOpcode: ConfigCodec to Released, and Rfu.
AseControlOpcodes == DOMAIN AseControlOpcode \cup {255}

\* An outcome of undefined behaviour other than a value: the program stops.
Crash == [tag |-> "Crash", value |-> <<>>]

\* AudioLocation::from_gatt of src/src/generic_audio.rs.
AudioLocation_src_from_gatt(data) ==
    IF Len(data) # SizeOfAudioLocation THEN InvalidLength
    ELSE LET value == FromLeBytes(data)
         IN  IF value \in MatchedLocations THEN Ok(<<value>>)
             ELSE Ok(<<Undefined>>)

\* AudioLocation::from_gatt of src/trouble-audio: the value of
\* u32::from_gatt, or its error.
AudioLocation_from_gatt(data) ==
    IF AudioLocationFromGatt(data) = <<>> THEN InvalidLength
    ELSE Ok(AudioLocationFromGatt(data))

\* A length check that takes every buffer that is long enough.
AudioContexts_from_gatt_min(data) ==
    IF Len(data) < SizeOfAudioContexts THEN {InvalidLength}
    ELSE {Ok(<<data[1] + 256 * data[2], data[3] + 256 * data[4]>>)}

\* AudioContexts::from_gatt: the outcomes.  The read of two bytes that are
\* no discriminant of ContextType is undefined behaviour.
AudioContexts_from_gatt(data) ==
    IF Len(data) # SizeOfAudioContexts THEN {InvalidLength}
    ELSE LET sink_contexts == data[1] + 256 * data[2]
             source_contexts == data[3] + 256 * data[4]
         IN  IF {sink_contexts, source_contexts} \subseteq ContextTypes
             THEN {Ok(<<sink_contexts, source_contexts>>)}
             ELSE {Ok(<<sink_contexts, source_contexts>>), Crash}

\* AseControlOpcode::from_gatt: the outcomes.  The read of a byte that is
\* no discriminant is undefined behaviour.
AseControlOpcode_from_gatt(data) ==
    IF Len(data) # SizeOfAseControlOpcode THEN {InvalidLength}
    ELSE IF data[1] \in AseControlOpcodes THEN {Ok(<<data[1]>>)}
    ELSE {Ok(<<data[1]>>), Crash}

\* AseType::from_gatt: the outcomes.  SIZE is size_of::<Ase>() and the read
\* is one of an AseType, past the buffer or of bytes that are no AseType:
\* undefined behaviour, whose value is not modelled.
AseType_from_gatt(data, size_of_ase) ==
    IF Len(data) # size_of_ase THEN {InvalidLength}
    ELSE {Ok(<<>>), Crash}

\* The types with a from_gatt of a fixed size.
GattTypes ==
    {"AudioLocation_src", "AudioLocation", "AudioContexts", "AseType",
     "AseControlOpcode"}

\* The outcomes of type::from_gatt(data).
from_gatt(type, data, size_of_ase) ==
    CASE type = "AudioLocation_src" -> {AudioLocation_src_from_gatt(data)}
      [] type = "AudioLocation" -> {AudioLocation_from_gatt(data)}
      [] type = "AudioContexts" -> AudioContexts_from_gatt(data)
      [] type = "AseType" -> AseType_from_gatt(data, size_of_ase)
      [] type = "AseControlOpcode" -> AseControlOpcode_from_gatt(data)

\* SIZE of FixedGattValue for the type.
FixedSize(type, size_of_ase) ==
    CASE type \in {"AudioLocation_src", "AudioLocation"} -> SizeOfAudioLocation
      [] type = "AudioContexts" -> SizeOfAudioContexts
      [] type = "AseType" -> size_of_ase
      [] type = "AseControlOpcode" -> SizeOfAseControlOpcode

\* The inputs: a buffer, and the size of an Ase in the build.
InitGatt ==
    /\ InitAse
    /\ InitServerVars
    /\ InitBuildVars
    /\ \E data \in Buffers, size_of_ase \in AseSizes :
          call = [NoCall EXCEPT !.input = data, !.size_of_ase = size_of_ase]

\* type::from_gatt(data) on the buffer.  A crash ends the program.
CallFromGatt(type) ==
    /\ call.result.tag # "Crash"
    /\ \E result \in from_gatt(type, call.input, call.size_of_ase) :
          call' = [call EXCEPT !.type = type, !.fn = "from_gatt",
                               !.args = call.input, !.result = result]
    /\ UNCHANGED <<ase_vars, server_vars, build_vars>>

NextGatt == \E type \in GattTypes : CallFromGatt(type)

\* from_gatt of every type applied to every buffer.
SpecGatt == InitGatt /\ [][NextGatt]_vars

(***************************************************************************)
(* The bit sets of the codec capabilities, PAC and the control enumerations *)
(***************************************************************************)
\* Largest length of a list of sampling frequencies or channel counts.
MaxListLen == 2

\* SamplingFrequency as its bit_position: Hz8000 = 0 .. Hz384000 = 12.
SamplingFrequency == 0..12

\* The lists of sampling frequencies given to new.
FrequencyLists == UNION {[1..n -> SamplingFrequency] : n \in 0..MaxListLen}

\* 1 << bit_position on a u8.  A shift by 8 or more overflows: with overflow
\* checks (a debug build) it panics, without them the amount is taken
\* modulo 8.
Shl1U8(bit_position, overflow_checks) ==
    IF bit_position < 8 THEN Ok(<<Pow2(bit_position)>>)
    ELSE IF overflow_checks THEN Panic
    ELSE Ok(<<Pow2(bit_position % 8)>>)

\* a + b on integers of `bits` bits: with overflow checks an overflow
\* panics, without them the sum wraps.
AddUnsigned(a, b, bits, overflow_checks) ==
    IF a + b < Pow2(bits) THEN Ok(<<a + b>>)
    ELSE IF overflow_checks THEN Panic
    ELSE Ok(<<(a + b) % Pow2(bits)>>)

\* SamplingFrequencies::add of src/src/generic_audio.rs and
\* SupportedSamplingFrequencies::add of capabilities.rs:
\* *frequencies += 1 << sampling_frequency.bit_position()
SamplingFrequencies_add(frequencies, sampling_frequency, overflow_checks) ==
    LET bit == Shl1U8(sampling_frequency, overflow_checks)
    IN  IF bit = Panic THEN Panic
        ELSE AddUnsigned(frequencies, bit.value[1], 8, overflow_checks)

\* SupportedSamplingFrequencies::default of src/src/pacs.rs:
\* 1 << SamplingFrequency::default().bit_position(), Hz8000.
SupportedSamplingFrequencies_default == Pow2(0)

\* SupportedSamplingFrequencies::add of src/src/pacs.rs, on a u16:
\* self.0 + 1 << sampling_frequency.bit_position(), where + binds tighter
\* than <<; the bits shifted out of the u16 are lost.
SupportedSamplingFrequencies_add(self, sampling_frequency, overflow_checks) ==
    LET sum == AddUnsigned(self, 1, 16, overflow_checks)
    IN  IF sum = Panic THEN Panic
        ELSE Ok(<<(sum.value[1] * Pow2(sampling_frequency)) % Pow2(16)>>)

\* The types of the sets of sampling frequencies: SamplingFrequencies of
\* src/src/generic_audio.rs, SupportedSamplingFrequencies of capabilities.rs
\* and SupportedSamplingFrequencies of src/src/pacs.rs.
FrequencySetTypes ==
    {"SamplingFrequencies", "SupportedSamplingFrequencies",
     "SupportedSamplingFrequencies_pacs"}

\* The loop of new over the list, from position i on; a panic ends it.
RECURSIVE AddFrequencies(_, _, _, _, _)
AddFrequencies(type, acc, frequencies, i, overflow_checks) ==
    IF acc = Panic \/ i > Len(frequencies) THEN acc
    ELSE AddFrequencies(
             type,
             IF type = "SupportedSamplingFrequencies_pacs"
             THEN SupportedSamplingFrequencies_add(acc.value[1],
                      frequencies[i], overflow_checks)
             ELSE SamplingFrequencies_add(acc.value[1], frequencies[i],
                                          overflow_checks),
             frequencies, i + 1, overflow_checks)

\* The set of the list: new(frequencies) of the two u8 types, and
\* new().add(f1).add(f2).. of src/src/pacs.rs.
SamplingFrequencies_new(type, frequencies, overflow_checks) ==
    AddFrequencies(type,
                   IF type = "SupportedSamplingFrequencies_pacs"
                   THEN Ok(<<SupportedSamplingFrequencies_default>>)
                   ELSE Ok(<<0>>),
                   frequencies, 1, overflow_checks)

\* value | (1 << bit) on a u8, for bit < 8.
BitOr(value, bit) ==
    IF bit \in Bits(value) THEN value ELSE value + Pow2(bit)

\* A range check that takes the counts 0 .. 7.
SetChannelFromZero(value, channel) ==
    IF channel <= 7 THEN BitOr(value, channel) ELSE value

\* The body of the constructors of the channel counts:
\* if channel >= 1 && channel <= 8 { value |= 1 << (channel - 1) }
SetChannel(value, channel) ==
    IF channel >= 1 /\ channel <= 8 THEN BitOr(value, channel - 1)
    ELSE value

\* The loop of AudioChannelCounts::new over `channels`, from position i on.
RECURSIVE SetChannels(_, _, _)
SetChannels(value, channels, i) ==
    IF i > Len(channels) THEN value
    ELSE SetChannels(SetChannel(value, channels[i]), channels, i + 1)

\* AudioChannelCounts::new(channels) of src/src/generic_audio.rs.
AudioChannelCounts_new(channels) == Ok(<<SetChannels(0, channels, 1)>>)

\* SupportedAudioChannelCounts::new(count) of capabilities.rs.
SupportedAudioChannelCounts_new(count) == Ok(<<SetChannel(0, count)>>)

\* The u8 values given as channel counts: 0, the counts in range, the
\* first ones past the range and the largest u8.
ChannelCounts == 0..10 \cup {255}

\* The lists of channel counts given to AudioChannelCounts::new.
ChannelLists == UNION {[1..n -> ChannelCounts] : n \in 0..MaxListLen}

\* MAX_NUMBER_PAC_RECORDS of src/trouble-audio/src/pacs.rs.
MAX_NUMBER_PAC_RECORDS == 5

\* The PAC records of the lists, by their codec: two different records.
PacRecords == {0, 1}

\* The values of Vec<PACRecord, MAX_NUMBER_PAC_RECORDS>.
RecordLists ==
    UNION {[1..n -> PacRecords] : n \in 0..MAX_NUMBER_PAC_RECORDS}

\* A PAC whose count is the capacity of the list.
PAC_new_capacity(records) ==
    [number_of_pac_records |-> MAX_NUMBER_PAC_RECORDS,
     pac_records |-> records]

\* PAC::new(records): records.len() as u8 and the list.
PAC_new(records) ==
    [number_of_pac_records |-> Len(records) % Pow2(8),
     pac_records |-> records]

\* AseControlOperation: the operation of each discriminant 1 .. 9, in the
\* order of the discriminants (Released follows Release = 8).
AseControlOperationValues ==
    <<"ConfigCodec", "ConfigQos", "Enable", "ReceiverStartReady",
      "ReceiverStopReady", "Disable", "UpdateMetadata", "Release",
      "Released">>

\* The names of the operations, in the order the specification lists them.
OperationNames ==
    <<"ConfigCodec", "ConfigQos", "Enable", "ReceiverStartReady", "Disable",
      "ReceiverStopReady", "UpdateMetadata", "Release", "Released">>

\* AseControlOperation::name as u8
AseControlOperation_as_u8(name) ==
    CHOOSE v \in DOMAIN AseControlOperationValues :
        AseControlOperationValues[v] = name

\* AseControlOpcode::name as u8, for the names of the operations.
AseControlOpcode_as_u8(name) ==
    CHOOSE v \in DOMAIN AseControlOpcode : AseControlOpcode[v] = name

\* The call of `fn` of `type` on `args` that returned `result`; a
\* behaviour is one call.
Returned(type, fn, args, result) ==
    /\ call.fn = "None"
    /\ call' = [call EXCEPT !.type = type, !.fn = fn, !.args = args,
                            !.result = result]
    /\ UNCHANGED <<ase_vars, server_vars, build_vars>>

\* type::new(frequencies), in a build with or without overflow checks.
CallFrequenciesNew(type, frequencies, overflow_checks) ==
    Returned(type, "new", frequencies,
             SamplingFrequencies_new(type, frequencies, overflow_checks))

\* AudioChannelCounts::new(channels)
CallAudioChannelCountsNew(channels) ==
    Returned("AudioChannelCounts", "new", channels,
             AudioChannelCounts_new(channels))

\* SupportedAudioChannelCounts::new(count)
CallSupportedAudioChannelCountsNew(count) ==
    Returned("SupportedAudioChannelCounts", "new", <<count>>,
             SupportedAudioChannelCounts_new(count))

\* PAC::new(records)
CallPacNew(records) ==
    Returned("PAC", "new", records, Ok(<<PAC_new(records)>>))

\* PAC::default()
CallPacDefault == Returned("PAC", "default", <<>>, Ok(<<PacDefault>>))

\* AseControlOperation::name as u8 for the i-th name.
CallOperationAsU8(i) ==
    Returned("AseControlOperation", "as_u8", <<i>>,
             Ok(<<AseControlOperation_as_u8(OperationNames[i])>>))

\* AseControlOpcode::name as u8 for the i-th name.
CallOpcodeAsU8(i) ==
    Returned("AseControlOpcode", "as_u8", <<i>>,
             Ok(<<AseControlOpcode_as_u8(OperationNames[i])>>))

NextValues ==
    \/ \E type \in FrequencySetTypes, frequencies \in FrequencyLists,
          overflow_checks \in BOOLEAN :
            CallFrequenciesNew(type, frequencies, overflow_checks)
    \/ \E channels \in ChannelLists : CallAudioChannelCountsNew(channels)
    \/ \E count \in ChannelCounts : CallSupportedAudioChannelCountsNew(count)
    \/ \E records \in RecordLists : CallPacNew(records)
    \/ CallPacDefault
    \/ \E i \in DOMAIN OperationNames : CallOperationAsU8(i)
    \/ \E i \in DOMAIN OperationNames : CallOpcodeAsU8(i)

\* Each constructor applied to each of its inputs.
SpecValues == Init /\ [][NextValues]_vars

(***************************************************************************)
(* to_gatt, from_gatt and verify of the characteristic values of           *)
(* src/src/pacs.rs                                                         *)
(***************************************************************************)
\* size_of::<PACRecord>(): a u64, two u16, three u16 of capabilities and an
\* Option<u64>, with an alignment of 8.  The compiler chooses the layout; on
\* every target it is larger than each of the six characteristic values.
SizeOfPACRecord == 40

\* size_of::<SinkPAC>() and size_of::<SourcePAC>(): a u8 and a reference to
\* a slice (an address and a length) of 8 bytes each.
SizeOfPAC == 24

\* size_of::<AvailableAudioContexts>(): two ContextType, an enum whose
\* discriminants 0x0000 .. 0x0080 fit one byte.
SizeOfPacsContexts == 2

\* The six characteristic value types.
PacsTypes ==
    {"SinkPAC", "SinkAudioLocations", "SourcePAC", "SourceAudioLocations",
     "AvailableAudioContexts", "SupportedAudioContexts"}

PacTypes == {"SinkPAC", "SourcePAC"}

LocationsTypes == {"SinkAudioLocations", "SourceAudioLocations"}

\* size_of::<T>() of a characteristic value type.
PacsSizeOf(type) ==
    CASE type \in PacTypes -> SizeOfPAC
      [] type \in LocationsTypes -> SizeOfAudioLocation
      [] OTHER -> SizeOfPacsContexts

\* <T as FixedGattValue>::SIZE: size_of::<Self>() for SinkAudioLocations,
\* size_of::<PACRecord>() for the five other types.
PacsSIZE(type) ==
    IF type = "SinkAudioLocations" THEN SizeOfAudioLocation
    ELSE SizeOfPACRecord

\* The discriminants of ContextType of src/src/pacs.rs: Prohibited and
\* Unspecified to SoundEffects.
PacsContextTypes == {0} \cup {Pow2(i) : i \in 0..7}

\* The reference to the empty static slice of the default PAC: the dangling
\* address align_of::<PACRecord>() and the length 0, 8 bytes each.
EmptySlice == <<8, 0, 0, 0, 0, 0, 0, 0>> \o <<0, 0, 0, 0, 0, 0, 0, 0>>

\* The values of a type, as the sequence of their fields: the number of
\* records and the bytes of the slice reference, the location, or the two
\* context types.
PacsValues(type) ==
    CASE type \in PacTypes -> {<<n>> \o EmptySlice : n \in {0, 1}}
      [] type \in LocationsTypes -> {<<loc>> : loc \in MatchedLocations}
      [] OTHER -> {<<sink, source>> : sink, source \in PacsContextTypes}

\* n bytes of the value b.
Fill(n, b) == [i \in 1..n |-> b]

\* The bytes of a value in memory: a PAC is the u8, 7 bytes of padding that
\* hold anything, and the reference; a location its 4 bytes; the contexts
\* one byte each.
PacsObjectBytes(type, value, pad) ==
    CASE type \in PacTypes ->
            <<value[1]>> \o Fill(7, pad) \o SubSeq(value, 2, Len(value))
      [] type \in LocationsTypes -> ToLeBytes(value[1])
      [] OTHER -> value

\* to_gatt: slice::from_raw_parts(self as *const u8, Self::SIZE).  The bytes
\* of the value, followed by the SIZE - size_of::<Self>() bytes that lie
\* behind the value: reading them is undefined behaviour, which returns
\* whatever the memory holds or stops the program.
pacs_to_gatt(type, value) ==
    LET behind == PacsSIZE(type) - PacsSizeOf(type)
    IN  {Ok(PacsObjectBytes(type, value, pad) \o Fill(behind, b)) :
            pad, b \in SampleBytes}
        \cup (IF behind > 0 THEN {Crash} ELSE {})

\* from_gatt: InvalidLength unless data.len() = SIZE, then read_unaligned of
\* a Self at the start of the data.
pacs_from_gatt(type, data) ==
    IF Len(data) # PacsSIZE(type) THEN InvalidLength
    ELSE CASE type \in PacTypes ->
                 Ok(<<data[1]>> \o SubSeq(data, 9, SizeOfPAC))
           [] type \in LocationsTypes ->
                 Ok(<<FromLeBytes(SubSeq(data, 1, SizeOfAudioLocation))>>)
           [] OTHER -> Ok(SubSeq(data, 1, SizeOfPacsContexts))

\* Err(Error::Att(AttErrorCode::WriteNotPermitted))
WriteNotPermitted == [tag |-> "WriteNotPermitted", value |-> <<>>]

\* SinkAudioLocations::verify and SourceAudioLocations::verify
verify(self, client_audio_location) ==
    IF client_audio_location # self[1] THEN WriteNotPermitted ELSE Ok(<<>>)

\* let gatt = GattValue::to_gatt(&value): args is the value.
CallToGatt(type, value) ==
    /\ call.fn = "None"
    /\ \E result \in pacs_to_gatt(type, value) :
          call' = [call EXCEPT !.type = type, !.fn = "to_gatt",
                               !.args = value, !.result = result]
    /\ UNCHANGED <<ase_vars, server_vars, build_vars>>

\* <T as FixedGattValue>::from_gatt(gatt): input is the encoded value, args
\* stays the value it was encoded from.
CallFromGattEncoded ==
    /\ call.fn = "to_gatt"
    /\ call.result.tag = "Ok"
    /\ call' = [call EXCEPT
                   !.fn = "from_gatt", !.input = call.result.value,
                   !.result = pacs_from_gatt(call.type, call.result.value)]
    /\ UNCHANGED <<ase_vars, server_vars, build_vars>>

\* .unwrap().verify(client_audio_location): input is the client's location.
CallVerify(client_audio_location) ==
    /\ call.fn = "from_gatt"
    /\ call.type \in LocationsTypes
    /\ call.result.tag = "Ok"
    /\ call' = [call EXCEPT
                   !.fn = "verify", !.input = <<client_audio_location>>,
                   !.result = verify(call.result.value,
                                     client_audio_location)]
    /\ UNCHANGED <<ase_vars, server_vars, build_vars>>

NextPacs ==
    \/ \E type \in PacsTypes : \E value \in PacsValues(type) :
          CallToGatt(type, value)
    \/ CallFromGattEncoded
    \/ \E client \in MatchedLocations : CallVerify(client)

\* A value of each type encoded, decoded and, for the locations, verified.
SpecPacs == Init /\ [][NextPacs]_vars

(***************************************************************************)
(* Properties                                                              *)
(***************************************************************************)
\* transition has been called: prev, operation, initiator and ase_type are
\* the arguments of the call and state is its result.
Called == operation # "None"

\* The argument tuple of the latest call.
Tuple == <<prev.kind, operation, initiator, ase_type>>

\* The valid transitions: the tuples the arms of the match name.
ValidTransitions ==
    {<<"Idle", "ConfigCodec", "ClientOrServer", "All">>,
     <<"CodecConfigured", "ConfigCodec", "ClientOrServer", "All">>,
     <<"CodecConfigured", "Release", "ClientOrServer", "All">>,
     <<"CodecConfigured", "ConfigQos", "Client", "All">>,
     <<"QosConfigured", "ConfigCodec", "ClientOrServer", "All">>,
     <<"QosConfigured", "ConfigQos", "Client", "All">>,
     <<"QosConfigured", "Release", "ClientOrServer", "All">>,
     <<"QosConfigured", "Enable", "Client", "All">>,
     <<"Enabling", "Release", "ClientOrServer", "All">>,
     <<"Enabling", "UpdateMetadata", "ClientOrServer", "All">>,
     <<"Enabling", "Disable", "ClientOrServer", "Source">>,
     <<"Enabling", "Disable", "ClientOrServer", "Sink">>,
     <<"Enabling", "ReceiverStartReady", "Client", "Source">>,
     <<"Enabling", "ReceiverStartReady", "Server", "Sink">>,
     <<"Streaming", "UpdateMetadata", "ClientOrServer", "All">>,
     <<"Streaming", "Disable", "ClientOrServer", "Source">>,
     <<"Streaming", "Disable", "ClientOrServer", "Sink">>,
     <<"Streaming", "Release", "ClientOrServer", "All">>,
     <<"Disabling", "ReceiverStopReady", "Client", "Source">>,
     <<"Disabling", "Release", "ClientOrServer", "Source">>,
     <<"Releasing", "Released", "Server", "All">>}

\* The default parameters of a state kind that carries parameters.
DefaultParams(kind) ==
    CASE kind = "CodecConfigured" -> AseParamsCodecConfiguredDefault
      [] kind = "QosConfigured" -> AseParamsQoSConfiguredDefault
      [] OTHER -> AseParamsOtherDefault

\* C1: from Idle, ConfigCodec by either initiator on an endpoint of any
\* direction yields CodecConfigured; from there ConfigQos by the client yields
\* QosConfigured; from there Enable by the client yields Enabling; from there
\* ReceiverStartReady by the client on a Source endpoint yields Streaming.
C1_ScenarioToStreaming ==
    Called =>
        /\ (prev.kind = "Idle" /\ operation = "ConfigCodec")
              => state.kind = "CodecConfigured"
        /\ (prev.kind = "CodecConfigured" /\ operation = "ConfigQos"
              /\ initiator = "Client")
              => state.kind = "QosConfigured"
        /\ (prev.kind = "QosConfigured" /\ operation = "Enable"
              /\ initiator = "Client")
              => state.kind = "Enabling"
        /\ (prev.kind = "Enabling" /\ operation = "ReceiverStartReady"
              /\ initiator = "Client" /\ ase_type = "Source")
              => state.kind = "Streaming"

\* C2: transition is total: for every state, operation, initiator and
\* direction the call returns an AseState value (a kind of the enum, with the
\* parameter struct of that kind), it never panics.
C2_TransitionTotal ==
    Called =>
        /\ state.kind \in AseStateKinds
        /\ state.kind \in ParamKinds => DOMAIN state = {"kind", "params"}
        /\ state.kind \notin ParamKinds => DOMAIN state = {"kind"}

\* C2 witness: a call on the reserved state with a tuple no arm names returned.
C2_Witness ==
    /\ Called
    /\ prev.kind = "RFU"
    /\ operation = "Released"
    /\ initiator = "Client"
    /\ ase_type = "Sink"
    /\ state.kind \in AseStateKinds

C4_ParamsReset ==
    (Called /\ state.kind \in ParamKinds)
        => state.params = DefaultParams(state.kind)

\* C4 witness: UpdateMetadata kept a Streaming endpoint in Streaming, and the
\* parameters it had before the call were not the defaults.
C4_Witness ==
    /\ Called
    /\ prev.kind = "Streaming"
    /\ prev.params # AseParamsOtherDefault
    /\ operation = "UpdateMetadata"
    /\ state = Streaming(AseParamsOtherDefault)

\* C5: from every state other than Idle, Release by either initiator on an
\* endpoint of any direction yields Releasing.
C5_ReleaseYieldsReleasing ==
    (Called /\ prev.kind \in {"CodecConfigured", "QosConfigured", "Enabling",
                              "Streaming", "Disabling", "Releasing"}
            /\ operation = "Release")
        => state.kind = "Releasing"

\* C6 as stated: whenever transition returns Disabling, the current state is
\* Enabling or Streaming.
C6_DisablingOnlyFromEnablingOrStreaming ==
    (Called /\ state.kind = "Disabling")
        => prev.kind \in {"Enabling", "Streaming"}

\* C6 amended: a valid transition returns Disabling only from Enabling or
\* Streaming; from any other state Disabling is returned by the invalid-input
\* fallback only.
C6_ValidDisablingOnlyFromEnablingOrStreaming ==
    (Called /\ state.kind = "Disabling" /\ Tuple \in ValidTransitions)
        => prev.kind \in {"Enabling", "Streaming"}

\* C6 witness: Disable on a streaming Source endpoint yielded Disabling.
C6_Witness ==
    /\ Called
    /\ prev.kind = "Streaming"
    /\ operation = "Disable"
    /\ ase_type = "Source"
    /\ Tuple \in ValidTransitions
    /\ state.kind = "Disabling"

\* C7: from Releasing, Released by the server yields Idle, for a Sink and for
\* a Source endpoint.
C7_ReleasedYieldsIdle ==
    (Called /\ prev.kind = "Releasing" /\ operation = "Released"
            /\ initiator = "Server")
        => state.kind = "Idle"

\* C8 as stated: a transition from Releasing never yields a state other than
\* Idle.
C8_OnlyIdleFollowsReleasing ==
    (Called /\ prev.kind = "Releasing") => state.kind = "Idle"

\* C8 amended: a transition from Releasing yields Idle or, by the
\* invalid-input fallback, Disabling, and never any other state; the valid
\* transition from Releasing yields Idle.
C8_IdleOrDisablingFollowsReleasing ==
    (Called /\ prev.kind = "Releasing")
        => /\ state.kind \in {"Idle", "Disabling"}
           /\ Tuple \in ValidTransitions => state.kind = "Idle"

\* C8 witness: the valid transition from Releasing was taken and yielded Idle.
C8_Witness ==
    /\ Called
    /\ prev.kind = "Releasing"
    /\ operation = "Released"
    /\ Tuple \in ValidTransitions
    /\ state = Idle

\* C9: from Enabling or Streaming, Disable by either initiator yields
\* QosConfigured on a Sink endpoint and Disabling on a Source endpoint.
C9_DisableByDirection ==
    (Called /\ prev.kind \in {"Enabling", "Streaming"} /\ operation = "Disable")
        => /\ ase_type = "Sink" => state.kind = "QosConfigured"
           /\ ase_type = "Source" => state.kind = "Disabling"

\* C10: from Enabling, ReceiverStartReady yields Streaming exactly when the
\* initiator is the client and the direction Source, or the initiator is the
\* server and the direction Sink.
C10_ReceiverStartReady ==
    (Called /\ prev.kind = "Enabling" /\ operation = "ReceiverStartReady")
        => (state.kind = "Streaming"
              <=> \/ initiator = "Client" /\ ase_type = "Source"
                  \/ initiator = "Server" /\ ase_type = "Sink")

\* C10 witness: the server started a Sink endpoint, which is Streaming.
C10_Witness ==
    /\ Called
    /\ prev.kind = "Enabling"
    /\ operation = "ReceiverStartReady"
    /\ initiator = "Server"
    /\ ase_type = "Sink"
    /\ state.kind = "Streaming"

\* C11: from Disabling, ReceiverStopReady initiated by the client on a Source
\* endpoint yields QosConfigured (with the default parameters, as every arm).
C11_ReceiverStopReady ==
    (Called /\ Tuple = <<"Disabling", "ReceiverStopReady", "Client", "Source">>)
        => state = QosConfigured(AseParamsQoSConfiguredDefault)

\* A Disabling endpoint with non-default parameters took that transition.
C11_Witness ==
    /\ Called
    /\ Tuple = <<"Disabling", "ReceiverStopReady", "Client", "Source">>
    /\ prev.params # AseParamsOtherDefault
    /\ state.kind = "QosConfigured"

(***************************************************************************)
(* Properties of the server                                                *)
(***************************************************************************)
\* The latest event went through Server::process.
ViaServer == event.kind # "None" /\ event.via = "Server"

\* The characteristic UUID of the value attribute at a handle of a table,
\* "None" for a handle that is no value attribute.
UuidOf(table, handle) ==
    IF handle \in DOMAIN table /\ table[handle].kind = "value"
    THEN table[handle].uuid
    ELSE "None"

\* The UUID of the characteristic the latest event is about.
EventUuid == UuidOf(server.table, event.handle)

AseUuids == {"SINK_ASE", "SOURCE_ASE"}

LocationsUuids == {"SINK_AUDIO_LOCATIONS", "SOURCE_AUDIO_LOCATIONS"}

ReadOnlyPacsUuids ==
    {"SINK_PAC", "SOURCE_PAC",
     "SUPPORTED_AUDIO_CONTEXTS", "AVAILABLE_AUDIO_CONTEXTS"}

PacsUuids == ReadOnlyPacsUuids \cup LocationsUuids

\* The PAC characteristic of the direction of an Audio Locations
\* characteristic was constructed with it.
PacOfDirectionPresent(srv, handle) ==
    \/ /\ UuidOf(srv.table, handle) = "SINK_AUDIO_LOCATIONS"
       /\ srv.pacs.sink_pac # <<>>
    \/ /\ UuidOf(srv.table, handle) = "SOURCE_AUDIO_LOCATIONS"
       /\ srv.pacs.source_pac # <<>>

\* C12: after a control-point write carrying an opcode for endpoint id e is
\* accepted, the state of endpoint e is transition(previous state of e, the
\* operation of the opcode, the client as initiator, direction of e).
C12_ControlPointWriteDrivesStateMachine ==
    [][(/\ event'.kind = "Write"
        /\ reply'.answer = "accept"
        /\ UuidOf(server.table, event'.handle) = "ASE_CONTROL_POINT"
        /\ Len(event'.data) >= 3
        /\ event'.data[1] \in DOMAIN AseControlOpcode)
       => \A h \in DOMAIN server.table :
            (/\ server.table[h].ase # <<>>
             /\ server.table[h].ase[1].ase.id = event'.data[3])
            => server'.table[h].ase[1].ase.state
                 = transition(server.table[h].ase[1].ase.state,
                              AseControlOpcode[event'.data[1]],
                              "Client", server.table[h].ase[1].type)]_vars

\* C13: on every Sink/Source ASE characteristic handle, in every endpoint
\* state, a read is answered with success and a write with a rejection;
\* neither panics or goes unanswered.
C13_AseReadAcceptedWriteRejected ==
    (event.kind # "None" /\ EventUuid \in AseUuids)
        => /\ event.kind = "Read" => reply.answer = "accept"
           /\ event.kind = "Write" => reply.answer = "reject"

\* C14: the ASE Control Point is write-only: a write on its handle is
\* accepted and a read on its handle is rejected.
C14_ControlPointWriteOnly ==
    (event.kind # "None" /\ EventUuid = "ASE_CONTROL_POINT")
        => /\ event.kind = "Write" => reply.answer = "accept"
           /\ event.kind = "Read" => reply.answer = "reject"

\* C15: a read on a characteristic handle owned by the PACS service returns
\* success, for every combination of optional characteristics constructed.
C15_PacsReadAccepted ==
    (ViaServer /\ event.kind = "Read" /\ EventUuid \in PacsUuids)
        => reply.answer = "accept"

\* C16: a write on Sink PAC, Source PAC, Supported or Available Audio
\* Contexts is rejected with WriteNotPermitted whatever the payload; a read
\* on the Sink PAC handle is accepted.
C16_ReadOnlyCharacteristics ==
    /\ (ViaServer /\ event.kind = "Write" /\ EventUuid \in ReadOnlyPacsUuids)
          => (reply.answer = "reject" /\ reply.code = "WRITE_NOT_PERMITTED")
    /\ (ViaServer /\ event.kind = "Read" /\ EventUuid = "SINK_PAC")
          => reply.answer = "accept"

\* A well-formed Audio Locations payload written to the Supported Audio
\* Contexts characteristic was rejected with WriteNotPermitted.
C16_Witness ==
    /\ ViaServer
    /\ event.kind = "Write"
    /\ EventUuid = "SUPPORTED_AUDIO_CONTEXTS"
    /\ event.data = ToLeBytes(FrontRight)
    /\ reply.answer = "reject"
    /\ reply.code = "WRITE_NOT_PERMITTED"

\* C17: a write to an Audio Locations characteristic whose payload is not
\* 4 bytes long is rejected with the InvalidLength error code, not with a
\* different code and not accepted.  Stated for the servers that have the
\* PAC characteristic of the same direction.
C17_WrongLengthInvalidLength ==
    (/\ ViaServer
     /\ event.kind = "Write"
     /\ EventUuid \in LocationsUuids
     /\ PacOfDirectionPresent(server, event.handle)
     /\ Len(event.data) # SizeOfAudioLocation)
        => (/\ reply.answer = "reject"
            /\ reply.code = "INVALID_ATTRIBUTE_VALUE_LENGTH")

\* C18: a 4-byte write to an Audio Locations characteristic is rejected
\* with WriteRequestRejected if and only if the decoded mask has a bit
\* outside the locations the server supports (the value the characteristic
\* holds); every subset of the supported mask is accepted.  Stated for the
\* servers that have the PAC characteristic of the same direction.
C18_RejectedIffOutsideSupported ==
    [][(/\ event'.kind = "Write"
        /\ event'.via = "Server"
        /\ UuidOf(server.table, event'.handle) \in LocationsUuids
        /\ PacOfDirectionPresent(server, event'.handle)
        /\ Len(event'.data) = SizeOfAudioLocation)
       => LET decoded == Bits(FromLeBytes(event'.data))
              supported ==
                  Bits(FromLeBytes(server.table[event'.handle].data))
          IN  /\ (reply'.answer = "reject"
                  /\ reply'.code = "WRITE_REQUEST_REJECTED")
                     <=> ~(decoded \subseteq supported)
              /\ decoded \subseteq supported => reply'.answer = "accept"]_vars

NotClaimed ==
    /\ IF event.kind = "Read"
       THEN PacsServer_handle_read_event(server.pacs, event.handle) = "None"
       ELSE PacsServer_handle_write_event(server.pacs, event.handle,
                                          event.data) = "None"
    /\ \/ server.ascs = <<>>
       \/ IF event.kind = "Read"
          THEN AscsServer_handle_read_event(server.ascs[1], event.handle)
                  = "None"
          ELSE AscsServer_handle_write_event(server.ascs[1], event.handle,
                                             event.data) = "None"

\* C20: when neither PACS nor ASCS (if configured) claims the handle of an
\* event, the dispatcher rejects it with InvalidHandle; so is every event
\* on a handle that is no characteristic of PACS or ASCS.
C20_UnclaimedInvalidHandle ==
    (ViaServer
     /\ (NotClaimed
         \/ EventUuid \notin
                PacsUuids \cup AseUuids \cup {"ASE_CONTROL_POINT"}))
        => (reply.answer = "reject" /\ reply.code = "INVALID_HANDLE")

\* A write on the appearance characteristic of the GAP service, which no
\* component holds, was rejected with InvalidHandle by a server with ASCS.
C20_Witness ==
    /\ ViaServer
    /\ server.ascs # <<>>
    /\ event.kind = "Write"
    /\ EventUuid = "APPEARANCE"
    /\ NotClaimed
    /\ reply.answer = "reject"
    /\ reply.code = "INVALID_HANDLE"

\* C21: a read or write event on a characteristic handle that
\* PacsServer::new or AscsServer::new registered is claimed by a component:
\* it is never answered with InvalidHandle, for every combination of the
\* optional characteristics.
C21_IssuedHandleIsClaimed ==
    (ViaServer
     /\ EventUuid \in PacsUuids \cup AseUuids \cup {"ASE_CONTROL_POINT"})
        => ~(reply.answer = "reject" /\ reply.code = "INVALID_HANDLE")

\* C22: for every read or write event delivered to Server::process exactly
\* one of accept and reject is called: never both and never neither, on the
\* three paths (handled with success, handled with error, not handled).
C22_ExactlyOneAnswer ==
    ViaServer
        => /\ reply.accepts + reply.rejects = 1
           /\ reply.accepts = 1 <=> reply.answer = "accept"
           /\ reply.rejects = 1 <=> reply.answer = "reject"
           /\ reply.result = "Ok" <=> reply.answer = "accept"

\* An event that no component handled was answered once, by reject.
C22_Witness ==
    /\ ViaServer
    /\ reply.result = "None"
    /\ reply.accepts = 0
    /\ reply.rejects = 1

\* The latest event is a write that Server::process answered with a
\* rejection.
RejectedWrite == ViaServer /\ event.kind = "Write" /\ reply.answer = "reject"

C24_PacAndLocationsPaired ==
    server.kind = "Server"
        => /\ server.pacs.sink_pac = <<>>
                <=> server.pacs.sink_audio_locations = <<>>
           /\ server.pacs.source_pac = <<>>
                <=> server.pacs.source_audio_locations = <<>>

\* The latest construction was asked for more attributes than the table
\* holds.
OverCapacity == build.needed > MAX_SERVICES

C26_BuildWithinCapacitySucceeds ==
    (/\ build.status # "none"
     /\ Len(build.ases) >= 1
     /\ build.max_connections >= 1
     /\ ~OverCapacity)
        => /\ build.status = "built"
           /\ build.ase_chars = Len(build.ases) * build.max_connections
           /\ build.control_points = 1

\* C27: every OctetsPerCodecFrame value has min_octets <= max_octets:
\* new(min, max) with min > max makes no value and does not report a
\* decode error, and decode of a word whose low half exceeds its high half
\* neither makes a value with min > max nor panics.
C27_MinAtMostMax ==
    /\ (call.fn \in {"new", "decode"} /\ call.result.tag = "Ok")
          => call.result.value[1] <= call.result.value[2]
    /\ (call.fn = "new" /\ call.args[1] > call.args[2])
          => call.result.tag \notin {"Ok", "InvalidLength"}
    /\ call.fn = "decode" => call.result.tag # "Panic"

\* C28: for every value v = new(min, max) with min <= max, encode(v) has
\* min in its low 16 bits and max in its high 16 bits, and
\* decode(encode(v)) is v.
C28_OctetsRoundTrip ==
    /\ [](call.fn = "encode" /\ call.args[1] <= call.args[2]
            => /\ call.result.value[1] % 65536 = call.args[1]
               /\ call.result.value[1] \div 65536 = call.args[2])
    /\ [][(/\ call.fn = "encode"
           /\ call.args[1] <= call.args[2]
           /\ call'.fn = "decode"
           /\ call'.args = call.result.value)
          => call'.result = Ok(call.args)]_vars

\* SupportedOctetsPerCodecFrame::decode returned the value <<256, 32767>>,
\* with different halves past the low byte, from the pack of that value.
C28_Witness ==
    /\ call.type = "SupportedOctetsPerCodecFrame"
    /\ call.fn = "decode"
    /\ call.args = <<encode(<<256, 32767>>)>>
    /\ call.input = <<256, 32767>>
    /\ call.result = Ok(<<256, 32767>>)

\* C29: for each of AudioLocation, AudioContexts, the ASE value and
\* AseControlOpcode, from_gatt of a buffer whose length is not the fixed
\* size of the type returns Err(InvalidLength) and does not panic, and
\* from_gatt of a buffer of the fixed size does not return InvalidLength.
C29_InvalidLengthIffWrongLength ==
    call.fn = "from_gatt"
        => IF Len(call.args) # FixedSize(call.type, call.size_of_ase)
           THEN call.result = InvalidLength
           ELSE call.result.tag # "InvalidLength"

\* AudioContexts::from_gatt of a buffer one byte longer than the value
\* returned InvalidLength.
C29_Witness ==
    /\ call.fn = "from_gatt"
    /\ call.type = "AudioContexts"
    /\ Len(call.args) = SizeOfAudioContexts + 1
    /\ call.result = InvalidLength

\* C30: from_gatt of four bytes never fails: a little-endian value whose
\* set bits are all defined positions, one or several, decodes to the
\* locations it names, and a value with a bit outside the defined
\* positions decodes to the Undefined sentinel.
C30_AudioLocationDecodes ==
    (/\ call.fn = "from_gatt"
     /\ call.type \in {"AudioLocation_src", "AudioLocation"}
     /\ Len(call.args) = SizeOfAudioLocation)
        => /\ call.result.tag = "Ok"
           /\ call.result.value =
                 IF Bits(FromLeBytes(call.args)) \subseteq LocationPositions
                 THEN <<FromLeBytes(call.args)>>
                 ELSE <<Undefined>>

\* The bitwise OR of 1 << b over the elements b of a list: the sum of the
\* powers of two of the set of its elements.
RECURSIVE OrOfBits(_)
OrOfBits(positions) ==
    IF positions = {} THEN 0
    ELSE LET b == CHOOSE x \in positions : TRUE
         IN  Pow2(b) + OrOfBits(positions \ {b})

\* The set of the elements of a list.
Range(list) == {list[i] : i \in DOMAIN list}

\* C31: for every list of sampling frequencies, new gives the bitwise OR of
\* 1 << bit_position(f) over the list: the result does not depend on the
\* order, and a frequency listed twice gives the set of listing it once.
C31_FrequenciesOrAccumulation ==
    (call.fn = "new" /\ call.type \in FrequencySetTypes)
        => call.result = Ok(<<OrOfBits(Range(call.args))>>)

\* C32: for each of the 13 rates f, Hz8000 (bit 0) to Hz384000 (bit 12),
\* new([f]) gives the set with bit bit_position(f) only, without overflow
\* or wrap-around of the backing integer; different rates give different
\* sets.
C32_OneBitPerRate ==
    (/\ call.fn = "new"
     /\ call.type \in {"SamplingFrequencies", "SupportedSamplingFrequencies"}
     /\ Len(call.args) = 1)
        => call.result = Ok(<<Pow2(call.args[1])>>)

\* C33: an element of a set of channel counts that is 0 or greater than 8
\* sets no bit and does not fail, and each count c in 1 .. 8 sets bit
\* c - 1: the set has the bits of the counts in range of the list.
C33_ChannelCountsInRange ==
    (/\ call.fn = "new"
     /\ call.type \in {"AudioChannelCounts", "SupportedAudioChannelCounts"})
        => call.result
             = Ok(<<OrOfBits({c - 1 : c \in Range(call.args) \cap 1..8})>>)

\* AudioChannelCounts::new of a count in range and the count 0 returned
\* the set of the count in range.
C33_Witness ==
    /\ call.type = "AudioChannelCounts"
    /\ call.fn = "new"
    /\ call.args = <<8, 0>>
    /\ call.result = Ok(<<Pow2(7)>>)

\* C34: in the PAC that PAC::new gives for a list of 0 to 5 records, and
\* in PAC::default(), number_of_pac_records is the length of pac_records,
\* which is the list given.
C34_RecordCountIsLength ==
    call.type = "PAC"
        => /\ call.result.tag = "Ok"
           /\ call.result.value[1].number_of_pac_records
                 = Len(call.result.value[1].pac_records)
           /\ call.result.value[1].pac_records = call.args

\* PAC::new of a list of two different records returned a PAC of two.
C34_Witness ==
    /\ call.type = "PAC"
    /\ call.fn = "new"
    /\ call.args = <<0, 1>>
    /\ call.result.value[1].number_of_pac_records = 2

\* C39: for each operation name, the numeric value of AseControlOperation
\* is the numeric value of the AseControlOpcode of the same name.
C39_OperationAndOpcodeAgree ==
    (call.fn = "as_u8" /\ call.type = "AseControlOperation")
        => call.result
             = Ok(<<AseControlOpcode_as_u8(OperationNames[call.args[1]])>>)

\* C36: the RFU state is unreachable: for every sequence of (operation,
\* initiator, direction) inputs applied to an endpoint that starts in Idle, no
\* transition returns AseState::RFU.
C36_RfuUnreachable == state.kind # "RFU"

\* C36 witness: an endpoint that left Idle took the fallback arm, from
\* Releasing, and was put into Disabling, not into the reserved state.
C36_Witness ==
    /\ Called
    /\ prev.kind = "Releasing"
    /\ Tuple \notin ValidTransitions
    /\ state = Disabling(AseParamsOtherDefault)

\* C37: every step whose result is Idle has current state Releasing, operation
\* Released and initiator Server; no other input tuple, valid or invalid,
\* produces Idle.
C37_IdleOnlyThroughReleasing ==
    (Called /\ state.kind = "Idle")
        => /\ prev.kind = "Releasing"
           /\ operation = "Released"
           /\ initiator = "Server"

\* C37 witness: the Released step from Releasing produced Idle.
C37_Witness ==
    /\ Called
    /\ prev.kind = "Releasing"
    /\ operation = "Released"
    /\ initiator = "Server"
    /\ state = Idle

\* The states one call of transition yields from the states of S, over every
\* operation, initiator and direction.
Successors(S) ==
    {transition(s, op, init, ty) :
        s \in S, op \in AseControlOperation,
        init \in InitiatingDevice, ty \in AseType}

\* The states that at most n calls of transition yield from the states of S.
RECURSIVE ReachableWithin(_, _)
ReachableWithin(S, n) ==
    IF n = 0 THEN S ELSE ReachableWithin(S \cup Successors(S), n - 1)

\* C38: no state is a trap: from every AseState value, the reserved state and
\* Disabling reached by the fallback included, a finite sequence of
\* (operation, initiator, direction) inputs leads back to Idle.
C38_NoTrap == Idle \in ReachableWithin({state}, Cardinality(AseStateKinds))

\* C38 witness: the fallback took the endpoint from the reserved state to
\* Disabling, from where two calls (Release, then Released) lead to Idle.
C38_Witness ==
    /\ Called
    /\ prev.kind = "RFU"
    /\ state = Disabling(AseParamsOtherDefault)
    /\ Idle \notin ReachableWithin({state}, 1)
    /\ Idle \in ReachableWithin({state}, 2)

\* C40: ConfigCodec from CodecConfigured or QosConfigured yields
\* CodecConfigured, ConfigQos from QosConfigured yields QosConfigured,
\* UpdateMetadata from Enabling or Streaming yields the same state kind, and
\* UpdateMetadata in any other state does not keep the state kind.
C40_ReconfigurationKeepsOrStepsBack ==
    Called =>
        /\ (operation = "ConfigCodec"
                /\ prev.kind \in {"CodecConfigured", "QosConfigured"})
            => state.kind = "CodecConfigured"
        /\ (operation = "ConfigQos" /\ prev.kind = "QosConfigured")
            => state.kind = "QosConfigured"
        /\ (operation = "UpdateMetadata"
                /\ prev.kind \in {"Enabling", "Streaming"})
            => state.kind = prev.kind
        /\ (operation = "UpdateMetadata"
                /\ prev.kind \notin {"Enabling", "Streaming"})
            => state.kind # prev.kind

\* C35: for every PACS characteristic value type, encoding a value yields
\* bytes of the length from_gatt requires, decoding them succeeds, and verify
\* on a decoded Sink or Source Audio Locations value accepts the client
\* location equal to the location the value was built from and rejects every
\* other location.
C35_EncodeDecodeVerify ==
    /\ call.fn = "to_gatt"
        => /\ call.result.tag = "Ok"
           /\ Len(call.result.value) = PacsSIZE(call.type)
    /\ (call.fn = "from_gatt" /\ call.type \in PacsTypes)
        => call.result.tag = "Ok"
    /\ call.fn = "verify"
        => (call.result = Ok(<<>>) <=> call.input = call.args)

====
